---- MODULE Spec2Model ----
(***************************************************************************)
(* Voice processing pipeline of the farmer assistance AI service:          *)
(* app/voice_pipeline.py (VoiceActivityDetector, IntentRecognizer,         *)
(* DisambiguationHandler, FallbackHandler, VoiceProcessingPipeline) and    *)
(* the gateway client app/bhashini_client.py.                              *)
(*                                                                         *)
(* Text is a sequence of tokens.  Text that the code inspects (transcripts,*)
(* cache keys, keywords) is spelled one character per token; the fixed     *)
(* message literals of the code are single tokens.  Confidences of the     *)
(* intent recognizer are counted in hundredths.                            *)
(***************************************************************************)
EXTENDS Integers, Sequences, FiniteSets, TLC

(* ---------------- bounds of the model ---------------- *)
MaxIds == 2
MaxWrites == 2
MaxCacheOps == 1
MaxResolveCalls == 2
MaxBytes == 4
MaxWords == 3
MaxLists == 2
MaxCacheLog == 2

(* ---------------- tables of the code ---------------- *)
INTENT_PATTERNS ==
  << [intent |-> "weather_query", patterns |->
        << <<"w", "e", "a", "t", "h", "e", "r">>,
           <<"f", "o", "r", "e", "c", "a", "s", "t">>,
           <<"r", "a", "i", "n">>,
           <<"t", "e", "m", "p", "e", "r", "a", "t", "u", "r", "e">>,
           <<"m", "o", "n", "s", "o", "o", "n">> >>],
     [intent |-> "price_query", patterns |->
        << <<"p", "r", "i", "c", "e">>,
           <<"m", "a", "n", "d", "i">>,
           <<"r", "a", "t", "e">>,
           <<"c", "o", "s", "t">>,
           <<"m", "a", "r", "k", "e", "t">> >>],
     [intent |-> "scheme_query", patterns |->
        << <<"s", "c", "h", "e", "m", "e">>,
           <<"s", "u", "b", "s", "i", "d", "y">>,
           <<"g", "o", "v", "e", "r", "n", "m", "e", "n", "t">>,
           <<"l", "o", "a", "n">>,
           <<"i", "n", "s", "u", "r", "a", "n", "c", "e">> >>],
     [intent |-> "crop_query", patterns |->
        << <<"c", "r", "o", "p">>,
           <<"c", "u", "l", "t", "i", "v", "a", "t", "i", "o", "n">>,
           <<"p", "l", "a", "n", "t">>,
           <<"g", "r", "o", "w">>,
           <<"s", "o", "w">> >>],
     [intent |-> "disease_query", patterns |->
        << <<"d", "i", "s", "e", "a", "s", "e">>,
           <<"p", "e", "s", "t">>,
           <<"i", "n", "f", "e", "c", "t", "i", "o", "n">>,
           <<"t", "r", "e", "a", "t", "m", "e", "n", "t">>,
           <<"c", "u", "r", "e">> >>],
     [intent |-> "fertilizer_query", patterns |->
        << <<"f", "e", "r", "t", "i", "l", "i", "z", "e", "r">>,
           <<"n", "u", "t", "r", "i", "e", "n", "t">>,
           <<"u", "r", "e", "a">>,
           <<"d", "a", "p">>,
           <<"m", "a", "n", "u", "r", "e">> >>] >>

crop_names ==
  << <<"w", "h", "e", "a", "t">>,
           <<"r", "i", "c", "e">>,
           <<"p", "a", "d", "d", "y">>,
           <<"c", "o", "t", "t", "o", "n">>,
           <<"s", "u", "g", "a", "r", "c", "a", "n", "e">>,
           <<"c", "o", "r", "n">>,
           <<"m", "a", "i", "z", "e">>,
           <<"s", "o", "y", "b", "e", "a", "n">>,
           <<"g", "r", "o", "u", "n", "d", "n", "u", "t">>,
           <<"m", "u", "s", "t", "a", "r", "d">>,
           <<"p", "o", "t", "a", "t", "o">>,
           <<"t", "o", "m", "a", "t", "o">>,
           <<"o", "n", "i", "o", "n">> >>

indian_states ==
  << <<"m", "a", "h", "a", "r", "a", "s", "h", "t", "r", "a">>,
           <<"p", "u", "n", "j", "a", "b">>,
           <<"h", "a", "r", "y", "a", "n", "a">>,
           <<"u", "t", "t", "a", "r", " ", "p", "r", "a", "d", "e", "s", "h">>,
           <<"k", "a", "r", "n", "a", "t", "a", "k", "a">>,
           <<"a", "n", "d", "h", "r", "a", " ", "p", "r", "a", "d", "e", "s", "h">>,
           <<"t", "e", "l", "a", "n", "g", "a", "n", "a">>,
           <<"t", "a", "m", "i", "l", " ", "n", "a", "d", "u">>,
           <<"w", "e", "s", "t", " ", "b", "e", "n", "g", "a", "l">>,
           <<"g", "u", "j", "a", "r", "a", "t">> >>

quantity_units ==
  << <<"k", "g">>,
           <<"q", "u", "i", "n", "t", "a", "l">>,
           <<"t", "o", "n">>,
           <<"a", "c", "r", "e">>,
           <<"h", "e", "c", "t", "a", "r", "e">>,
           <<"l", "i", "t", "e", "r">>,
           <<"m", "l">> >>

time_patterns ==
  << [pattern |-> <<"t", "o", "d", "a", "y">>, time_expr |-> "today"],
     [pattern |-> <<"t", "o", "m", "o", "r", "r", "o", "w">>, time_expr |-> "tomorrow"],
     [pattern |-> <<"t", "h", "i", "s", " ", "w", "e", "e", "k">>, time_expr |-> "this_week"],
     [pattern |-> <<"n", "e", "x", "t", " ", "m", "o", "n", "t", "h">>, time_expr |-> "next_month"],
     [pattern |-> <<"k", "h", "a", "r", "i", "f">>, time_expr |-> "kharif"],
     [pattern |-> <<"r", "a", "b", "i">>, time_expr |-> "rabi"] >>

ambiguous_crops ==
  << [crop |-> <<"r", "i", "c", "e">>, variants |->
        << <<"p", "a", "d", "d", "y">>,
           <<"b", "a", "s", "m", "a", "t", "i">>,
           <<"p", "a", "r", "b", "o", "i", "l", "e", "d", " ", "r", "i", "c", "e">> >>],
     [crop |-> <<"m", "i", "l", "l", "e", "t">>, variants |->
        << <<"b", "a", "j", "r", "a">>,
           <<"j", "o", "w", "a", "r">>,
           <<"r", "a", "g", "i">> >>],
     [crop |-> <<"o", "i", "l", "s", "e", "e", "d">>, variants |->
        << <<"m", "u", "s", "t", "a", "r", "d">>,
           <<"s", "u", "n", "f", "l", "o", "w", "e", "r">>,
           <<"g", "r", "o", "u", "n", "d", "n", "u", "t">> >>] >>

price_words ==
  << <<"p", "r", "i", "c", "e">>,
           <<"r", "a", "t", "e">> >>

price_crop_words ==
  << <<"w", "h", "e", "a", "t">>,
           <<"r", "i", "c", "e">>,
           <<"c", "o", "t", "t", "o", "n">>,
           <<"s", "u", "g", "a", "r", "c", "a", "n", "e">> >>

price_options ==
  << <<"w", "h", "e", "a", "t">>,
           <<"r", "i", "c", "e">>,
           <<"c", "o", "t", "t", "o", "n">>,
           <<"s", "u", "g", "a", "r", "c", "a", "n", "e">>,
           <<"s", "o", "y", "b", "e", "a", "n">> >>

UpperChars == <<"A", "B", "C", "D", "E", "F", "G", "H", "I", "J", "K", "L", "M", "N", "O", "P", "Q", "R", "S", "T", "U", "V", "W", "X", "Y", "Z">>

LowerChars == <<"a", "b", "c", "d", "e", "f", "g", "h", "i", "j", "k", "l", "m", "n", "o", "p", "q", "r", "s", "t", "u", "v", "w", "x", "y", "z">>

DigitChars == <<"0", "1", "2", "3", "4", "5", "6", "7", "8", "9">>

T_wheat_price == <<"w", "h", "e", "a", "t", " ", "p", "r", "i", "c", "e">>

T_rice_price == <<"W", "h", "a", "t", " ", "i", "s", " ", "t", "h", "e", " ", "r", "i", "c", "e", " ", "p", "r", "i", "c", "e">>

T_mandi_rate == <<"m", "a", "n", "d", "i", " ", "r", "a", "t", "e">>

T_weather == <<"w", "e", "a", "t", "h", "e", "r">>

T_hello == <<"h", "e", "l", "l", "o">>

T_urea == <<"5", " ", "k", "g", " ", "u", "r", "e", "a", " ", "t", "o", "d", "a", "y">>

(* ---------------- str operations ---------------- *)
\* Python's None where a text, a list or a name may stand
None == "None"

\* Python's None where an object (a record or a dict) may stand
Null == [none |-> TRUE]

WhitespaceChars == {" ", "\t", "\n", "\r"}

LowerChar(c) ==
  IF \E i \in 1..Len(UpperChars) : UpperChars[i] = c
  THEN LowerChars[CHOOSE i \in 1..Len(UpperChars) : UpperChars[i] = c]
  ELSE c

Lower(text) == [i \in 1..Len(text) |-> LowerChar(text[i])]

RECURSIVE LStrip(_)
LStrip(text) ==
  IF text # <<>> /\ Head(text) \in WhitespaceChars THEN LStrip(Tail(text)) ELSE text

RECURSIVE RStrip(_)
RStrip(text) ==
  IF text # <<>> /\ text[Len(text)] \in WhitespaceChars
  THEN RStrip(SubSeq(text, 1, Len(text) - 1))
  ELSE text

Strip(text) == RStrip(LStrip(text))

MatchAt(needle, text, i) ==
  /\ i + Len(needle) - 1 <= Len(text)
  /\ SubSeq(text, i, i + Len(needle) - 1) = needle

Contains(needle, text) == \E i \in 1..(Len(text) + 1) : MatchAt(needle, text, i)

RECURSIVE FindAllCount(_, _, _)
FindAllCount(pattern, text, i) ==
  IF i > Len(text) THEN 0
  ELSE IF MatchAt(pattern, text, i)
       THEN 1 + FindAllCount(pattern, text, i + Len(pattern))
       ELSE FindAllCount(pattern, text, i + 1)

Min(a, b) == IF a <= b THEN a ELSE b

(* ---------------- IntentRecognizer ---------------- *)
\* the confidence without its upper limit
PatternConfidenceUncapped(match_count) == 50 + match_count * 10

PatternConfidence(match_count) == Min(50 + match_count * 10, 95)

RECURSIVE RecognizeLoop(_, _, _, _)
RecognizeLoop(text_lower, i, j, best) ==
  IF i > Len(INTENT_PATTERNS) THEN best
  ELSE IF j > Len(INTENT_PATTERNS[i].patterns) THEN RecognizeLoop(text_lower, i + 1, 1, best)
  ELSE LET pattern == INTENT_PATTERNS[i].patterns[j]
           confidence == PatternConfidence(FindAllCount(pattern, text_lower, 1))
       IN IF Contains(pattern, text_lower) /\ confidence > best.confidence
          THEN RecognizeLoop(text_lower, i, j + 1,
                             [intent |-> INTENT_PATTERNS[i].intent, confidence |-> confidence])
          ELSE RecognizeLoop(text_lower, i, j + 1, best)

recognize_intent(text) ==
  RecognizeLoop(Lower(text), 1, 1, [intent |-> "general_query", confidence |-> 0])

RECURSIVE AmbiguousCropLoop(_, _)
AmbiguousCropLoop(text_lower, k) ==
  IF k > Len(ambiguous_crops) THEN <<>>
  ELSE LET crop == ambiguous_crops[k].crop
           variants == ambiguous_crops[k].variants
           mentioned_variants == {v \in 1..Len(variants) : Contains(variants[v], text_lower)}
       IN IF Contains(crop, text_lower) /\ mentioned_variants = {}
          THEN variants
          ELSE AmbiguousCropLoop(text_lower, k + 1)

is_ambiguous(text, confidence) ==
  LET text_lower == Lower(text)
      crop_options == AmbiguousCropLoop(text_lower, 1)
  IN IF crop_options # <<>>
     THEN [ambiguous |-> TRUE, options |-> crop_options]
     ELSE IF /\ \E w \in 1..Len(price_words) : Contains(price_words[w], text_lower)
             /\ ~ \E w \in 1..Len(price_crop_words) : Contains(price_crop_words[w], text_lower)
          THEN [ambiguous |-> TRUE, options |-> price_options]
          ELSE IF confidence < 60
               THEN [ambiguous |-> TRUE, options |-> <<>>]
               ELSE [ambiguous |-> FALSE, options |-> <<>>]

IsDigit(c) == \E i \in 1..Len(DigitChars) : DigitChars[i] = c

DigitValue(c) == (CHOOSE i \in 1..Len(DigitChars) : DigitChars[i] = c) - 1

RECURSIVE DigitRunEnd(_, _)
DigitRunEnd(text, i) ==
  IF i <= Len(text) /\ IsDigit(text[i]) THEN DigitRunEnd(text, i + 1) ELSE i

RECURSIVE SpaceRunEnd(_, _)
SpaceRunEnd(text, i) ==
  IF i <= Len(text) /\ text[i] \in WhitespaceChars THEN SpaceRunEnd(text, i + 1) ELSE i

RECURSIVE ParseInt(_, _)
ParseInt(digits, acc) ==
  IF digits = <<>> THEN acc ELSE ParseInt(Tail(digits), acc * 10 + DigitValue(Head(digits)))

RECURSIVE FindQuantities(_, _)
FindQuantities(text, i) ==
  IF i > Len(text) THEN <<>>
  ELSE IF ~ IsDigit(text[i]) THEN FindQuantities(text, i + 1)
  ELSE LET d == DigitRunEnd(text, i)
           u == SpaceRunEnd(text, d)
           units == {k \in 1..Len(quantity_units) : MatchAt(quantity_units[k], text, u)}
       IN IF units = {} THEN FindQuantities(text, i + 1)
          ELSE LET k == CHOOSE m \in units : \A n \in units : m <= n
               IN <<[value |-> ParseInt(SubSeq(text, i, d - 1), 0), unit |-> quantity_units[k]]>>
                    \o FindQuantities(text, u + Len(quantity_units[k]))

extract_entities(text) ==
  LET text_lower == Lower(text)
      InText(w) == Contains(Lower(w), text_lower)
      found_crops == SelectSeq(crop_names, InText)
      found_states == SelectSeq(indian_states, InText)
      matches == FindQuantities(text_lower, 1)
      times == {k \in 1..Len(time_patterns) : Contains(time_patterns[k].pattern, text_lower)}
      e1 == IF found_crops # <<>> THEN [crops |-> found_crops] ELSE <<>>
      e2 == IF found_states # <<>> THEN [state |-> found_states[1]] ELSE <<>>
      e3 == IF matches # <<>> THEN [quantities |-> matches] ELSE <<>>
      e4 == IF times # {}
            THEN [time |-> time_patterns[CHOOSE m \in times : \A n \in times : m <= n].time_expr]
            ELSE <<>>
  IN e1 @@ e2 @@ e3 @@ e4


(* ---------------- VoiceActivityDetector ---------------- *)
\* ENERGY_THRESHOLD = 0.02, in hundredths
ENERGY_THRESHOLD == 2

\* An exception is its type and the text str(e) gives.
Exc(type, msg) == [type |-> type, msg |-> msg, error_code |-> None]

\* base64.b64decode of the request's audio_data: the bytes, or binascii.Error
b64decode(audio_data) ==
  IF audio_data.b64_valid
  THEN [raised |-> Null, bytes |-> audio_data.bytes]
  ELSE [raised |-> Exc("binascii.Error", <<"Incorrect padding">>), bytes |-> <<>>]

\* one little-endian signed 16-bit sample
Sample(lo, hi) ==
  LET v == lo + 256 * hi IN IF v >= 32768 THEN v - 65536 ELSE v

RECURSIVE SumSquares(_, _)
SumSquares(audio_chunk, k) ==
  IF k > Len(audio_chunk) \div 2 THEN 0
  ELSE LET s == Sample(audio_chunk[2 * k - 1], audio_chunk[2 * k])
       IN s * s + SumSquares(audio_chunk, k + 1)

\* energy as the fraction num/den; struct.error (length not 2 * (len // 2)) gives 0.0,
\* no sample at all raises ZeroDivisionError
calculate_energy(audio_chunk) ==
  IF Len(audio_chunk) % 2 # 0
  THEN [raised |-> Null, num |-> 0, den |-> 1]
  ELSE IF Len(audio_chunk) \div 2 = 0
       THEN [raised |-> Exc("ZeroDivisionError", <<"division by zero">>), num |-> 0, den |-> 1]
       ELSE [raised |-> Null, num |-> SumSquares(audio_chunk, 1), den |-> Len(audio_chunk) \div 2]

\* detect with the comparison against the threshold turned round
detect_below_threshold(audio_chunk) ==
  LET energy == calculate_energy(audio_chunk)
      is_speech == energy.num * 100 < ENERGY_THRESHOLD * energy.den
  IN IF energy.raised # Null
     THEN [raised |-> energy.raised, is_speech |-> FALSE, confidence |-> 0]
     ELSE [raised |-> Null, is_speech |-> is_speech, confidence |-> 0]

\* confidence = min(energy / threshold, 1.0) in hundredths; the quotient is capped before it
\* is scaled, which gives the same value since it is above 1 whenever is_speech holds
detect(audio_chunk) ==
  LET energy == calculate_energy(audio_chunk)
      is_speech == energy.num * 100 > ENERGY_THRESHOLD * energy.den
  IN IF energy.raised # Null
     THEN [raised |-> energy.raised, is_speech |-> FALSE, confidence |-> 0]
     ELSE [raised |-> Null,
           is_speech |-> is_speech,
           confidence |-> IF is_speech
                          THEN Min((energy.num * 100) \div (ENERGY_THRESHOLD * energy.den), 1) * 100
                          ELSE 0]

(* ---------------- DisambiguationHandler ---------------- *)
\* a dict without key k
DictDel(d, k) == [x \in (DOMAIN d) \ {k} |-> d[x]]

\* a dict with d[k] = v
DictSet(d, k, v) == [x \in (DOMAIN d) \cup {k} |-> IF x = k THEN v ELSE d[x]]

DisambiguationRequest(query, options, language) ==
  [query |-> query, options |-> options, language |-> language]

\* create_disambiguation that files the record under its query
create_disambiguation_by_query(pending, confirmation_id, query, options, language) ==
  DictSet(pending, query, DisambiguationRequest(query, options, language))

\* the pending map after create_disambiguation stored the record under the new id
create_disambiguation(pending, confirmation_id, query, options, language) ==
  DictSet(pending, confirmation_id, DisambiguationRequest(query, options, language))

InOptions(selected_option, options) == \E k \in 1..Len(options) : options[k] = selected_option

\* resolve_disambiguation that forgets the del: the record stays pending
resolve_disambiguation_keep(pending, confirmation_id, selected_option) ==
  IF confirmation_id \notin DOMAIN pending
  THEN [result |-> Null, pending |-> pending]
  ELSE LET request == pending[confirmation_id]
       IN [result |-> [selected_option |-> selected_option,
                       confidence |-> IF InOptions(selected_option, request.options)
                                      THEN [num |-> 1, den |-> Len(request.options)]
                                      ELSE [num |-> 1, den |-> 2]],
           pending |-> pending]

\* resolve_disambiguation that removes the record only for a listed option
resolve_disambiguation_del_listed(pending, confirmation_id, selected_option) ==
  IF confirmation_id \notin DOMAIN pending
  THEN [result |-> Null, pending |-> pending]
  ELSE LET request == pending[confirmation_id]
       IN [result |-> [selected_option |-> selected_option,
                       confidence |-> IF InOptions(selected_option, request.options)
                                      THEN [num |-> 1, den |-> Len(request.options)]
                                      ELSE [num |-> 1, den |-> 2]],
           pending |-> IF InOptions(selected_option, request.options)
                       THEN DictDel(pending, confirmation_id)
                       ELSE pending]

\* resolve_disambiguation without the check of lines 290-292
resolve_disambiguation_unchecked(pending, confirmation_id, selected_option) ==
  IF confirmation_id \notin DOMAIN pending
  THEN [result |-> [selected_option |-> selected_option, confidence |-> [num |-> 1, den |-> 2]],
        pending |-> pending]
  ELSE LET request == pending[confirmation_id]
       IN [result |-> [selected_option |-> selected_option,
                       confidence |-> IF InOptions(selected_option, request.options)
                                      THEN [num |-> 1, den |-> Len(request.options)]
                                      ELSE [num |-> 1, den |-> 2]],
           pending |-> DictDel(pending, confirmation_id)]

\* resolve_disambiguation that does not look whether the option is listed
resolve_disambiguation_any_option(pending, confirmation_id, selected_option) ==
  IF confirmation_id \notin DOMAIN pending
  THEN [result |-> Null, pending |-> pending]
  ELSE LET request == pending[confirmation_id]
       IN [result |-> [selected_option |-> selected_option,
                       confidence |-> IF request.options # <<>>
                                      THEN [num |-> 1, den |-> Len(request.options)]
                                      ELSE [num |-> 1, den |-> 2]],
           pending |-> DictDel(pending, confirmation_id)]

\* resolve_disambiguation: the returned value and the pending map it leaves
resolve_disambiguation(pending, confirmation_id, selected_option) ==
  IF confirmation_id \notin DOMAIN pending
  THEN [result |-> Null, pending |-> pending]
  ELSE LET request == pending[confirmation_id]
       IN [result |-> [selected_option |-> selected_option,
                       confidence |-> IF InOptions(selected_option, request.options)
                                      THEN [num |-> 1, den |-> Len(request.options)]
                                      ELSE [num |-> 1, den |-> 2]],
           pending |-> DictDel(pending, confirmation_id)]

RECURSIVE Join(_, _)
Join(sep, options) ==
  IF options = <<>> THEN <<>>
  ELSE IF Len(options) = 1 THEN options[1]
  ELSE options[1] \o sep \o Join(sep, Tail(options))

generate_disambiguation_message(query, options, language) ==
  LET joined == Join(<<",", " ">>, options)
      english == <<"Your query is ambiguous. Did you mean: ">> \o joined \o <<"?">>
  IN CASE language = "hi" -> <<"hi: Your query is ambiguous. Did you mean: ">> \o joined \o <<"?">>
       [] language = "en" -> english
       [] language = "ta" -> <<"ta: Your query is ambiguous. Did you mean: ">> \o joined \o <<"?">>
       [] language = "te" -> <<"te: Your query is ambiguous. Did you mean: ">> \o joined \o <<"?">>
       [] OTHER -> english

(* ---------------- FallbackHandler ---------------- *)
fallback_chain == <<"voice", "text", "cached">>

\* get_next_fallback on the handler whose self.fallback_chain is the list chain
get_next_fallback(chain, failed_mode) ==
  IF \E i \in 1..Len(chain) : chain[i] = failed_mode
  THEN LET failed_index == CHOOSE i \in 1..Len(chain) :
                              /\ chain[i] = failed_mode
                              /\ \A j \in 1..(i - 1) : chain[j] # failed_mode
       IN IF failed_index < Len(chain) THEN chain[failed_index + 1] ELSE None
  ELSE None

\* get_fallback_chain that hands out the handler's own list
get_fallback_chain_shared(heap) == [heap |-> heap, ref |-> 1]

\* get_fallback_chain: a copy of the list, as a new object; the handler's list is heap[1]
get_fallback_chain(heap) == [heap |-> Append(heap, heap[1]), ref |-> Len(heap) + 1]

CacheKey(query) == Strip(Lower(query))

\* cache_response that stores under the trimmed query, case kept
cache_response_case_kept(c, query, response) == DictSet(c, Strip(query), response)

cache_response(c, query, response) == DictSet(c, CacheKey(query), response)

get_cached_response(c, query) ==
  IF CacheKey(query) \in DOMAIN c THEN c[CacheKey(query)] ELSE None


(* ---------------- gateway client (bhashini_client.py) ---------------- *)
retry_count == 3

\* what the service can do to one HTTP attempt
AttemptOutcomes == {"ok", "bad_json", "rate_limited", "http_error", "timeout", "client_error"}

RECURSIVE Pow2(_)
Pow2(n) == IF n = 0 THEN 1 ELSE 2 * Pow2(n - 1)

BhashiniAPIError(message, error_code) ==
  [type |-> "BhashiniAPIError", msg |-> message, error_code |-> error_code]

\* the response status of the attempts that end in a status other than 200 and 429
http_error_status == [http_error |-> "500", http_error_404 |-> "404"]

\* f"API_ERROR_{response.status}" for these statuses
api_error_code == [http_error |-> "API_ERROR_500", http_error_404 |-> "API_ERROR_404"]

\* one iteration of the retry loop that retries after every status but 200
MakeRequestStepRetryStatus(attempt, outcome) ==
  CASE outcome = "ok" -> [next |-> "return", wait |-> 0, exc |-> Null]
    [] outcome = "bad_json" ->
         [next |-> "raise", wait |-> 0,
          exc |-> Exc("JSONDecodeError", <<"Expecting value">>)]
    [] outcome = "rate_limited" \/ outcome \in DOMAIN http_error_status ->
         [next |-> "continue", wait |-> (attempt + 1) * 2, exc |-> Null]
    [] OTHER -> [next |-> "continue", wait |-> Pow2(attempt), exc |-> Null]

\* one iteration of the retry loop of _make_request
MakeRequestStep(attempt, outcome) ==
  CASE outcome = "ok" -> [next |-> "return", wait |-> 0, exc |-> Null]
    [] outcome = "bad_json" ->
         [next |-> "raise", wait |-> 0,
          exc |-> Exc("JSONDecodeError", <<"Expecting value">>)]
    [] outcome = "rate_limited" -> [next |-> "continue", wait |-> (attempt + 1) * 2, exc |-> Null]
    [] outcome \in DOMAIN http_error_status ->
         [next |-> "raise", wait |-> 0,
          exc |-> BhashiniAPIError(<<"API request failed with status ", http_error_status[outcome]>>,
                                   api_error_code[outcome])]
    [] OTHER -> [next |-> "continue", wait |-> Pow2(attempt), exc |-> Null]

\* the head of the retry loop that allows one attempt more
LoopHeadInclusive(attempt) ==
  IF attempt <= retry_count
  THEN [st |-> "attempting", result |-> Null]
  ELSE [st |-> "raised",
        result |-> BhashiniAPIError(<<"Request failed after ", "3", " attempts">>,
                                    "MAX_RETRIES_EXCEEDED")]

\* the head of `for attempt in range(retry_count)`: the next attempt, or the raise after the loop
LoopHead(attempt) ==
  IF attempt < retry_count
  THEN [st |-> "attempting", result |-> Null]
  ELSE [st |-> "raised",
        result |-> BhashiniAPIError(<<"Request failed after ", "3", " attempts">>,
                                    "MAX_RETRIES_EXCEEDED")]

RECURSIVE MakeRequestLoop(_, _, _)
MakeRequestLoop(outcomes, attempt, waits) ==
  IF attempt >= retry_count
  THEN [kind |-> "raise",
        exc |-> BhashiniAPIError(<<"Request failed after ", "3", " attempts">>, "MAX_RETRIES_EXCEEDED"),
        attempts |-> attempt, waits |-> waits]
  ELSE LET step == MakeRequestStep(attempt, outcomes[attempt + 1])
       IN CASE step.next = "return" ->
                 [kind |-> "return", exc |-> Null, attempts |-> attempt + 1, waits |-> waits]
            [] step.next = "raise" ->
                 [kind |-> "raise", exc |-> step.exc, attempts |-> attempt + 1, waits |-> waits]
            [] OTHER -> MakeRequestLoop(outcomes, attempt + 1, Append(waits, step.wait))

\* _make_request against a service that answers the attempts with outcomes[1], outcomes[2], ...
_make_request(outcomes) == MakeRequestLoop(outcomes, 0, <<>>)

\* every way a gateway request can end, as its caller sees it
GatewayResults ==
  {[kind |-> r.kind, exc |-> r.exc] :
     r \in {_make_request(o) : o \in [1..retry_count -> AttemptOutcomes]}}

\* ASRClient.transcribe around the result of its request
transcribe(res, transcription) ==
  IF res.kind = "return" THEN [raised |-> Null, text |-> transcription]
  ELSE IF res.exc.type = "BhashiniAPIError" THEN [raised |-> Null, text |-> <<>>]
  ELSE [raised |-> res.exc, text |-> <<>>]

\* NMTClient.translate around the result of its request (source # target)
translate(text, res, target) ==
  IF res.kind = "return" THEN [raised |-> Null, translated_text |-> target, confidence |-> 90]
  ELSE IF res.exc.type = "BhashiniAPIError"
       THEN [raised |-> Null, translated_text |-> text, confidence |-> 0]
  ELSE [raised |-> res.exc, translated_text |-> <<>>, confidence |-> 0]

\* an NMT client that sends every translation to the service
identity_pass_never(source_language, target_language) == FALSE

\* `if source_language == target_language` of translate and translate_batch
identity_pass(source_language, target_language) == source_language = target_language

\* NMTClient.translate when source = target: no request
translate_identity(text) == [raised |-> Null, translated_text |-> text, confidence |-> 100]

TranslationResponse(original_text, translated_text, source_language, target_language, confidence, processing_time_ms) ==
  [original_text |-> original_text, translated_text |-> translated_text,
   source_language |-> source_language, target_language |-> target_language,
   confidence |-> confidence, processing_time_ms |-> processing_time_ms]

\* NMTClient.translate_batch when source = target: no request
translate_batch_identity(texts, source_language, target_language) ==
  [k \in 1..Len(texts) |->
     TranslationResponse(texts[k], texts[k], source_language, target_language, 100, 0)]

\* NMTClient.translate_batch around the result of its request (source # target)
translate_batch(texts, res, translations, source_language, target_language) ==
  IF res.kind = "return"
  THEN [raised |-> Null,
        responses |-> [k \in 1..Min(Len(texts), Len(translations)) |->
                         TranslationResponse(texts[k], translations[k], source_language,
                                             target_language, 90, 0)]]
  ELSE IF res.exc.type = "BhashiniAPIError"
       THEN [raised |-> Null,
             responses |-> [k \in 1..Len(texts) |->
                              TranslationResponse(texts[k], texts[k], source_language,
                                                  target_language, 0, 0)]]
  ELSE [raised |-> res.exc, responses |-> <<>>]

\* TTSClient.synthesize around the result of its request
synthesize(res, audio) ==
  IF res.kind = "return"
  THEN IF b64decode(audio).raised # Null
       THEN [raised |-> b64decode(audio).raised, audio_data |-> <<>>]
       ELSE [raised |-> Null, audio_data |-> audio.bytes]
  ELSE IF res.exc.type = "BhashiniAPIError" THEN [raised |-> Null, audio_data |-> <<>>]
  ELSE [raised |-> res.exc, audio_data |-> <<>>]


(* ---------------- VoiceProcessingPipeline: data ---------------- *)
Languages == {"hi", "ta", "en"}

\* the languages requests arrive in: one translated, one taken as English
RequestLanguages == {"hi", "en"}

\* the languages sessions are configured in and switched to
SessionLanguages == {"hi", "ta"}

\* a LanguageConfig whose default voice depends on the language
LanguageConfigVoiceByLanguage(source_language) ==
  [source_language |-> source_language,
   target_language |-> "en",
   asr_model |-> "default",
   nmt_model |-> "agriculture",
   tts_voice |-> IF source_language = "ta" THEN "male" ELSE "female",
   tts_speed |-> 1]

LanguageConfig(source_language) ==
  [source_language |-> source_language,
   target_language |-> "en",
   asr_model |-> "default",
   nmt_model |-> "agriculture",
   tts_voice |-> "female",
   tts_speed |-> 1]

VoiceProcessingResponse(session_id, user_text, user_text_english, system_response, system_response_audio, intent, entities, confidence, disambiguation_required, disambiguation_options, fallback_used, fallback_reason) ==
  [session_id |-> session_id,
   user_text |-> user_text,
   user_text_english |-> user_text_english,
   system_response |-> system_response,
   system_response_audio |-> system_response_audio,
   intent |-> intent,
   entities |-> entities,
   confidence |-> confidence,
   disambiguation_required |-> disambiguation_required,
   disambiguation_options |-> disambiguation_options,
   fallback_used |-> fallback_used,
   fallback_reason |-> fallback_reason]

\* entities.get('crops')[0] if any, else the template's default words
FirstCropOr(entities, default) ==
  IF "crops" \in DOMAIN entities THEN entities.crops[1] ELSE default

_generate_response(intent, entities, query_english) ==
  CASE intent = "weather_query" ->
         <<"The weather forecast for your area shows clear skies with temperatures between 25-35C. No rainfall is expected in the next 7 days.">>
    [] intent = "price_query" ->
         <<"Current market prices for ">> \o FirstCropOr(entities, <<"agricultural commodities">>)
           \o <<" are available. Please check the mandi prices section for details.">>
    [] intent = "scheme_query" ->
         <<"There are several government schemes available for farmers. You can view them in the schemes section of the app.">>
    [] intent = "crop_query" ->
         <<"For ">> \o FirstCropOr(entities, <<"agricultural">>)
           \o <<" cultivation, recommended practices include proper sowing time, adequate irrigation, and timely fertilizer application.">>
    [] intent = "disease_query" ->
         <<"For crop disease diagnosis, please upload a clear image of the affected plant part in the disease detection section.">>
    [] intent = "fertilizer_query" ->
         <<"Fertilizer recommendations depend on soil test results and crop requirements. Please check the fertilizer recommendation section.">>
    [] OTHER ->
         <<"I can help you with weather forecasts, mandi prices, government schemes, crop recommendations, and disease detection. What would you like to know about?">>

\* _fallback_to_text that reports a fixed reason
_fallback_to_text_fixed_reason(c, session_id, request, error_message) ==
  IF ~ request.enable_fallback
  THEN VoiceProcessingResponse(session_id, <<>>, <<>>,
         <<"Voice processing failed. Please try again or use text input.">>,
         None, None, Null, 0, FALSE, None, TRUE, error_message)
  ELSE LET cached_response == get_cached_response(c, <<>>)
       IN IF cached_response # None /\ cached_response # <<>>
          THEN VoiceProcessingResponse(session_id, <<>>, <<>>, cached_response,
                 None, None, Null, 0, FALSE, None, TRUE, <<"Voice failed">>)
          ELSE VoiceProcessingResponse(session_id, <<>>, <<>>,
                 <<"Voice recognition failed. Please repeat your query or type it instead.">>,
                 None, None, Null, 0, FALSE, None, TRUE, <<"Voice failed">>)

\* _fallback_to_text that looks up the cache under a query text
_fallback_to_text_last_query(c, session_id, request, error_message) ==
  IF ~ request.enable_fallback
  THEN VoiceProcessingResponse(session_id, <<>>, <<>>,
         <<"Voice processing failed. Please try again or use text input.">>,
         None, None, Null, 0, FALSE, None, TRUE, error_message)
  ELSE LET cached_response == get_cached_response(c, T_wheat_price)
       IN IF cached_response # None /\ cached_response # <<>>
          THEN VoiceProcessingResponse(session_id, <<>>, <<>>, cached_response,
                 None, None, Null, 0, FALSE, None, TRUE, <<"Voice failed: ">> \o error_message)
          ELSE VoiceProcessingResponse(session_id, <<>>, <<>>,
                 <<"Voice recognition failed. Please repeat your query or type it instead.">>,
                 None, None, Null, 0, FALSE, None, TRUE, <<"Voice failed: ">> \o error_message)

_fallback_to_text(c, session_id, request, error_message) ==
  IF ~ request.enable_fallback
  THEN VoiceProcessingResponse(session_id, <<>>, <<>>,
         <<"Voice processing failed. Please try again or use text input.">>,
         None, None, Null, 0, FALSE, None, TRUE, error_message)
  ELSE LET cached_response == get_cached_response(c, <<>>)
       IN IF cached_response # None /\ cached_response # <<>>
          THEN VoiceProcessingResponse(session_id, <<>>, <<>>, cached_response,
                 None, None, Null, 0, FALSE, None, TRUE, <<"Voice failed: ">> \o error_message)
          ELSE VoiceProcessingResponse(session_id, <<>>, <<>>,
                 <<"Voice recognition failed. Please repeat your query or type it instead.">>,
                 None, None, Null, 0, FALSE, None, TRUE, <<"Voice failed: ">> \o error_message)


(* ---------------- inputs of the model ---------------- *)
Procs == {"p1"}

Resolvers == {"r1", "r2"}

Sessions == {"s1"}

\* str(uuid.uuid4()) of the process_voice call p, for a request without session id
uuid4_session == [p \in Procs |-> "u1"]

\* str(uuid.uuid4()) of the k-th create_disambiguation call: opaque, pairwise different
uuid4_confirmation == <<"c1", "c2", "c3", "c4">>

\* the ids a caller can ask to resolve: the issued ones and one that never is
ResolvableIds(issued) == issued \cup {"unknown"}

\* request audio: malformed base64, no bytes, odd length, all-zero PCM, loud PCM
Audios ==
  {[b64_valid |-> FALSE, bytes |-> <<>>],
   [b64_valid |-> TRUE, bytes |-> <<>>],
   [b64_valid |-> TRUE, bytes |-> <<1, 0, 1>>],
   [b64_valid |-> TRUE, bytes |-> <<0, 0, 0, 0>>],
   [b64_valid |-> TRUE, bytes |-> <<0, 1, 255, 255>>]}

Requests ==
  [audio_data : Audios,
   source_language : RequestLanguages,
   session_id : Sessions \cup {None},
   enable_fallback : BOOLEAN]

\* transcriptions the ASR service can answer with
AsrTexts == {<<>>, T_wheat_price, T_rice_price, T_weather, T_hello}

\* translations the NMT service can answer with
NmtTexts == {<<>>, T_weather}

\* audio contents the TTS service can answer with
TtsAudios ==
  {[b64_valid |-> TRUE, bytes |-> <<"mp3 audio">>],
   [b64_valid |-> TRUE, bytes |-> <<>>],
   [b64_valid |-> FALSE, bytes |-> <<>>]}

OptionLists == {<<>>, price_options}

CacheQueries == {<<>>, T_wheat_price, <<" ", "W", "H", "E", "A", "T", " ", "P", "R", "I", "C", "E", "\n">>}

CacheResponses == {<<>>, <<"cached answer">>}

(* ---------------- state ---------------- *)
VARIABLES
  language_configs,         \* session id -> reference of its LanguageConfig object
  config_heap,              \* the LanguageConfig objects, by reference
  config_writer,            \* session id -> the operation that stored its current config
  pending_disambiguations,  \* confirmation id -> DisambiguationRequest
  issued_ids,               \* the confirmation ids uuid4 has produced
  resolved_ids,             \* the confirmation ids a resolve has succeeded on
  cache,                    \* FallbackHandler.cache
  cache_ops,                \* number of cache_response calls made
  proc,                     \* the process_voice calls
  resolver,                 \* the resolve_disambiguation calls
  resolve_calls,            \* number of resolve_disambiguation calls made
  vad_call,                 \* a VoiceActivityDetector.detect call: its input and its result
  intent_call,              \* an IntentRecognizer call: its text and its results
  chain_heap,               \* the list objects of fallback modes, by reference
  caller_chain,             \* the reference a caller got from get_fallback_chain
  next_fallback,            \* the get_next_fallback calls made: mode and answer
  cache_log,                \* the cache_response calls made, in order
  cache_lookup,             \* the last get_cached_response call: query and answer
  request_call,             \* a _make_request call: its position in the retry loop
  config_read,              \* the last get_language_config call: session id and answer
  nmt_call                  \* an NMTClient call: its arguments, its requests, its result

\* the state of the voice pipeline and its handlers
pipeline_vars == <<language_configs, config_heap, config_writer, pending_disambiguations, issued_ids,
                   resolved_ids, cache_ops, proc, resolver, resolve_calls>>

\* the state of the calls made on the components one at a time
call_vars == <<vad_call, intent_call, chain_heap, caller_chain, next_fallback, cache_log,
               cache_lookup, request_call>>

component_vars == <<call_vars, config_read, nmt_call>>

vars == <<pipeline_vars, cache, component_vars>>

IdleProc ==
  [pc |-> "idle", request |-> Null, session_id |-> None,
   lang_config |-> 0,          \* the reference process_voice holds in lang_config
   cfg_seen |-> Null,          \* the object behind it when it was fetched (line 456)
   cfg_writer |-> None,        \* the operation that had stored it
   user_text |-> <<>>, user_text_english |-> <<>>, system_response |-> <<>>,
   calls |-> <<>>,             \* the gateway requests issued so far
   asr_text |-> None,          \* the text the ASR client returned
   gateway_failed |-> FALSE,   \* a gateway request ended in a BhashiniAPIError
   error_text |-> None,        \* the error text handed to _fallback_to_text
   response |-> Null, raised |-> Null, outcome |-> None]

IdleResolver ==
  [st |-> "idle", confirmation_id |-> None, selected_option |-> None,
   saw_pending |-> FALSE, result |-> Null]

\* a detect call before it is made: the bytes of its audio_chunk
IdleVad == [st |-> "building", audio_chunk |-> <<>>, result |-> Null]

\* a recognizer call before it is made: the words of its text
IdleIntent ==
  [st |-> "building", words |-> <<>>, intent |-> None, confidence |-> 0,
   asked_confidence |-> 0, result |-> Null]

IdleRequest ==
  [st |-> "idle", attempt |-> 0, outcomes |-> <<>>, waits |-> <<>>, result |-> Null]

IdleNmt ==
  [st |-> "idle", site |-> None, texts |-> <<>>, source_language |-> None,
   target_language |-> None, requests |-> 0, result |-> Null]

Init ==
  /\ language_configs = <<>>
  /\ config_heap = <<>>
  /\ config_writer = <<>>
  /\ pending_disambiguations = <<>>
  /\ issued_ids = {}
  /\ resolved_ids = {}
  /\ cache = <<>>
  /\ cache_ops = 0
  /\ proc = [p \in Procs |-> IdleProc]
  /\ resolver = [r \in Resolvers |-> IdleResolver]
  /\ resolve_calls = 0
  /\ vad_call = IdleVad
  /\ intent_call = IdleIntent
  /\ chain_heap = <<fallback_chain>>
  /\ caller_chain = 0
  /\ next_fallback = Null
  /\ cache_log = <<>>
  /\ cache_lookup = Null
  /\ request_call = IdleRequest
  /\ config_read = Null
  /\ nmt_call = IdleNmt

(* ---------------- session language registry ---------------- *)
\* configure_language that updates the stored object of a known session in place
configure_language_in_place(configs, heap, session_id, language) ==
  IF session_id \in DOMAIN configs
  THEN [heap |-> [heap EXCEPT ![configs[session_id]].source_language = language],
        configs |-> configs]
  ELSE [heap |-> Append(heap, LanguageConfig(language)),
        configs |-> DictSet(configs, session_id, Len(heap) + 1)]

\* configure_language that leaves the config of a configured session as it is
configure_language_keep_existing(configs, heap, session_id, language) ==
  IF session_id \in DOMAIN configs
  THEN [heap |-> heap, configs |-> configs]
  ELSE [heap |-> Append(heap, LanguageConfig(language)),
        configs |-> DictSet(configs, session_id, Len(heap) + 1)]

\* configure_language: a new LanguageConfig object, stored under the session id
configure_language(configs, heap, session_id, language) ==
  [heap |-> Append(heap, LanguageConfig(language)),
   configs |-> DictSet(configs, session_id, Len(heap) + 1)]

get_language_config(configs, heap, session_id) ==
  IF session_id \in DOMAIN configs THEN heap[configs[session_id]] ELSE Null

ConfigureLanguage(session_id, language) ==
  /\ Len(config_heap) < MaxWrites
  /\ LET w == configure_language(language_configs, config_heap, session_id, language)
     IN /\ config_heap' = w.heap
        /\ language_configs' = w.configs
  /\ config_writer' = DictSet(config_writer, session_id, "configure_language")
  /\ UNCHANGED <<component_vars, pending_disambiguations, issued_ids, resolved_ids, cache, cache_ops,
                 proc, resolver, resolve_calls>>

\* switch_language has no suspension point: it is configure_language
switch_language(session_id, new_language) ==
  /\ Len(config_heap) < MaxWrites
  /\ LET w == configure_language(language_configs, config_heap, session_id, new_language)
     IN /\ config_heap' = w.heap
        /\ language_configs' = w.configs
  /\ config_writer' = DictSet(config_writer, session_id, "switch_language")
  /\ UNCHANGED <<component_vars, pending_disambiguations, issued_ids, resolved_ids, cache, cache_ops,
                 proc, resolver, resolve_calls>>

(* ---------------- disambiguation and cache operations ---------------- *)
CreateDisambiguation(query, options, language) ==
  /\ Cardinality(issued_ids) < MaxIds
  /\ LET confirmation_id == uuid4_confirmation[Cardinality(issued_ids) + 1]
     IN /\ pending_disambiguations' =
             create_disambiguation(pending_disambiguations, confirmation_id,
                                   query, options, language)
        /\ issued_ids' = issued_ids \cup {confirmation_id}
  /\ UNCHANGED <<component_vars, language_configs, config_heap, config_writer, resolved_ids, cache, cache_ops,
                 proc, resolver, resolve_calls>>

\* a resolve request arrives (the endpoint is awaited by the event loop)
CallResolve(r, confirmation_id, selected_option) ==
  /\ resolve_calls < MaxResolveCalls
  /\ resolver[r].st # "inflight"
  /\ resolver' = [resolver EXCEPT ![r] =
       [st |-> "inflight", confirmation_id |-> confirmation_id,
        selected_option |-> selected_option,
        saw_pending |-> confirmation_id \in DOMAIN pending_disambiguations,
        result |-> Null]]
  /\ resolve_calls' = resolve_calls + 1
  /\ UNCHANGED <<component_vars, language_configs, config_heap, config_writer, pending_disambiguations, issued_ids,
                 resolved_ids, cache, cache_ops, proc>>

\* the endpoint runs resolve_disambiguation, which has no suspension point
RunResolve(r) ==
  /\ resolver[r].st = "inflight"
  /\ LET out == resolve_disambiguation(pending_disambiguations, resolver[r].confirmation_id,
                                       resolver[r].selected_option)
     IN /\ pending_disambiguations' = out.pending
        /\ resolver' = [resolver EXCEPT ![r].st = "returned", ![r].result = out.result]
        /\ resolved_ids' = IF out.result # Null
                           THEN resolved_ids \cup {resolver[r].confirmation_id}
                           ELSE resolved_ids
  /\ UNCHANGED <<component_vars, language_configs, config_heap, config_writer, issued_ids, cache, cache_ops, proc,
                 resolve_calls>>

CacheResponse(query, response) ==
  /\ cache_ops < MaxCacheOps
  /\ cache' = cache_response(cache, query, response)
  /\ cache_ops' = cache_ops + 1
  /\ UNCHANGED <<component_vars, language_configs, config_heap, config_writer, pending_disambiguations, issued_ids,
                 resolved_ids, proc, resolver, resolve_calls>>


(* ---------------- process_voice ---------------- *)
\* process_voice returns the response
\* how process_voice ends: NoSpeech, Disambiguate, Done or Fallback
Return(pr, response, outcome) ==
  [pr EXCEPT !.pc = "returned", !.response = response, !.outcome = outcome]

\* an exception leaves process_voice
Raise(pr, exc) == [pr EXCEPT !.pc = "raised", !.raised = exc]

\* the except clauses of process_voice: both answer with the text fallback
Fallback(pr, c, error_message) ==
  Return([pr EXCEPT !.error_text = error_message],
         _fallback_to_text(c, pr.session_id, pr.request, error_message), "Fallback")

\* except clauses that catch BhashiniAPIError only
ExceptApiErrorOnly(pr, c, exc) ==
  IF exc.type = "BhashiniAPIError" THEN Fallback(pr, c, exc.msg) ELSE Raise(pr, exc)

Except(pr, c, exc) == Fallback(pr, c, exc.msg)

\* bookkeeping of one ended gateway request
Ended(pr, res) ==
  [pr EXCEPT !.gateway_failed =
     pr.gateway_failed \/ (res.kind = "raise" /\ res.exc.type = "BhashiniAPIError")]

\* a gateway request is issued and the call is suspended on it
Suspend(pr, pc, call) == [pr EXCEPT !.pc = pc, !.calls = Append(pr.calls, call)]

\* step 8: the TTS request
CallTts(pr, heap, system_response) ==
  Suspend([pr EXCEPT !.system_response = system_response], "tts",
          [svc |-> "tts", text |-> system_response, language |-> pr.request.source_language,
           voice |-> heap[pr.lang_config].tts_voice, speed |-> heap[pr.lang_config].tts_speed])

\* steps 4 and 5 on one English text: intent, entities, ambiguity
Understand(text) ==
  LET ri == recognize_intent(text)
  IN [ri |-> ri, entities |-> extract_entities(text), amb |-> is_ambiguous(text, ri.confidence)]

\* steps 4 and 5 on every text the pipeline can meet, computed once
Understanding == [text \in AsrTexts \cup NmtTexts |-> Understand(text)]

\* steps 4 to 7 that ask for disambiguation on every reported ambiguity
AfterTranslateAnyAmbiguity(pr0, heap, user_text_english) ==
  LET pr == [pr0 EXCEPT !.user_text_english = user_text_english]
      ri == Understanding[user_text_english].ri
      entities == Understanding[user_text_english].entities
      amb == Understanding[user_text_english].amb
      system_response == _generate_response(ri.intent, entities, user_text_english)
  IN IF amb.ambiguous
     THEN Return(pr,
            VoiceProcessingResponse(pr.session_id, pr.user_text, user_text_english,
              generate_disambiguation_message(user_text_english, amb.options,
                                              pr.request.source_language),
              None, ri.intent, entities, ri.confidence, TRUE, amb.options, FALSE, None),
            "Disambiguate")
     ELSE IF pr.request.source_language # "en"
          THEN Suspend([pr EXCEPT !.system_response = system_response], "nmt_back",
                       [svc |-> "nmt", text |-> system_response, source_language |-> "en",
                        target_language |-> pr.request.source_language])
          ELSE CallTts(pr, heap, system_response)

\* steps 4 to 7, up to the next gateway request
AfterTranslate(pr0, heap, user_text_english) ==
  LET pr == [pr0 EXCEPT !.user_text_english = user_text_english]
      ri == Understanding[user_text_english].ri
      entities == Understanding[user_text_english].entities
      amb == Understanding[user_text_english].amb
      system_response == _generate_response(ri.intent, entities, user_text_english)
  IN IF amb.ambiguous /\ amb.options # <<>>
     THEN Return(pr,
            VoiceProcessingResponse(pr.session_id, pr.user_text, user_text_english,
              generate_disambiguation_message(user_text_english, amb.options,
                                              pr.request.source_language),
              None, ri.intent, entities, ri.confidence, TRUE, amb.options, FALSE, None),
            "Disambiguate")
     ELSE IF pr.request.source_language # "en"
          THEN Suspend([pr EXCEPT !.system_response = system_response], "nmt_back",
                       [svc |-> "nmt", text |-> system_response, source_language |-> "en",
                        target_language |-> pr.request.source_language])
          ELSE CallTts(pr, heap, system_response)

\* lines 449-481: session, language config, VAD, the ASR request
ProcessVoiceStart(p, request) ==
  /\ proc[p].pc = "idle"
  /\ LET session_id == IF request.session_id # None THEN request.session_id
                       ELSE uuid4_session[p]
         w == IF session_id \notin DOMAIN language_configs
              THEN configure_language(language_configs, config_heap, session_id,
                                      request.source_language)
              ELSE [heap |-> config_heap, configs |-> language_configs]
         writer == IF session_id \notin DOMAIN language_configs
                   THEN DictSet(config_writer, session_id, "process_voice")
                   ELSE config_writer
         pr == [proc[p] EXCEPT !.request = request, !.session_id = session_id,
                               !.lang_config = w.configs[session_id],
                               !.cfg_seen = w.heap[w.configs[session_id]],
                               !.cfg_writer = writer[session_id]]
         dec == b64decode(request.audio_data)
         vad_result == detect(dec.bytes)
     IN /\ config_heap' = w.heap
        /\ language_configs' = w.configs
        /\ config_writer' = writer
        /\ proc' = [proc EXCEPT ![p] =
             IF dec.raised # Null THEN Except(pr, cache, dec.raised)
             ELSE IF vad_result.raised # Null THEN Except(pr, cache, vad_result.raised)
             ELSE IF ~ vad_result.is_speech
                  THEN Return(pr,
                         VoiceProcessingResponse(session_id, <<>>, <<>>,
                           <<"Could not detect speech. Please speak clearly.">>,
                           None, None, Null, 0, FALSE, None, FALSE, <<"No speech detected">>),
                         "NoSpeech")
                  ELSE Suspend(pr, "asr", [svc |-> "asr",
                                           language |-> request.source_language])]
  /\ UNCHANGED <<component_vars, pending_disambiguations, issued_ids, resolved_ids, cache, cache_ops,
                 resolver, resolve_calls>>

\* the ASR request ends; lines 483-494
AsrComplete(p, res, transcription) ==
  /\ proc[p].pc = "asr"
  /\ LET asr_response == transcribe(res, transcription)
         pr == [Ended(proc[p], res) EXCEPT !.asr_text =
                  IF asr_response.raised # Null THEN None ELSE asr_response.text]
         pr1 == [pr EXCEPT !.user_text = asr_response.text]
     IN proc' = [proc EXCEPT ![p] =
          IF asr_response.raised # Null THEN Except(pr, cache, asr_response.raised)
          ELSE IF asr_response.text = <<>>
               THEN Fallback(pr, cache, <<"ASR failed">>)
          ELSE IF identity_pass(pr.request.source_language, "en")
               THEN AfterTranslate(pr1, config_heap,
                                   translate_identity(asr_response.text).translated_text)
               ELSE Suspend(pr1, "nmt",
                            [svc |-> "nmt", text |-> asr_response.text,
                             source_language |-> pr.request.source_language,
                             target_language |-> "en"])]
  /\ UNCHANGED <<component_vars, language_configs, config_heap, config_writer, pending_disambiguations, issued_ids,
                 resolved_ids, cache, cache_ops, resolver, resolve_calls>>

\* the translation to English ends; lines 496-537
NmtComplete(p, res, target) ==
  /\ proc[p].pc = "nmt"
  /\ LET pr == Ended(proc[p], res)
         translation_response == translate(pr.user_text, res, target)
     IN proc' = [proc EXCEPT ![p] =
          IF translation_response.raised # Null
          THEN Except(pr, cache, translation_response.raised)
          ELSE AfterTranslate(pr, config_heap, translation_response.translated_text)]
  /\ UNCHANGED <<component_vars, language_configs, config_heap, config_writer, pending_disambiguations, issued_ids,
                 resolved_ids, cache, cache_ops, resolver, resolve_calls>>

\* the translation back ends; lines 537-546
NmtBackComplete(p, res, target) ==
  /\ proc[p].pc = "nmt_back"
  /\ LET pr == Ended(proc[p], res)
         translation_back == translate(pr.system_response, res, target)
     IN proc' = [proc EXCEPT ![p] =
          IF translation_back.raised # Null
          THEN Except(pr, cache, translation_back.raised)
          ELSE CallTts(pr, config_heap, translation_back.translated_text)]
  /\ UNCHANGED <<component_vars, language_configs, config_heap, config_writer, pending_disambiguations, issued_ids,
                 resolved_ids, cache, cache_ops, resolver, resolve_calls>>

\* a TTS step that asks the service again when its answer cannot be used
TtsCompleteRetry(p, res, audio) ==
  /\ proc[p].pc = "tts"
  /\ LET pr == Ended(proc[p], res)
         tts_response == synthesize(res, audio)
         ri == Understanding[pr.user_text_english].ri
     IN proc' = [proc EXCEPT ![p] =
          IF tts_response.raised # Null
          THEN IF Len(pr.calls) < 5 THEN CallTts(pr, config_heap, pr.system_response)
               ELSE Except(pr, cache, tts_response.raised)
          ELSE Return(pr,
                 VoiceProcessingResponse(pr.session_id, pr.user_text, pr.user_text_english,
                   pr.system_response,
                   IF tts_response.audio_data # <<>> THEN tts_response.audio_data ELSE None,
                   ri.intent, Understanding[pr.user_text_english].entities, ri.confidence,
                   FALSE, None, FALSE, None),
                 "Done")]
  /\ UNCHANGED <<component_vars, language_configs, config_heap, config_writer, pending_disambiguations, issued_ids,
                 resolved_ids, cache, cache_ops, resolver, resolve_calls>>

\* the TTS request ends; lines 548-562
TtsComplete(p, res, audio) ==
  /\ proc[p].pc = "tts"
  /\ LET pr == Ended(proc[p], res)
         tts_response == synthesize(res, audio)
         ri == Understanding[pr.user_text_english].ri
     IN proc' = [proc EXCEPT ![p] =
          IF tts_response.raised # Null THEN Except(pr, cache, tts_response.raised)
          ELSE Return(pr,
                 VoiceProcessingResponse(pr.session_id, pr.user_text, pr.user_text_english,
                   pr.system_response,
                   IF tts_response.audio_data # <<>> THEN tts_response.audio_data ELSE None,
                   ri.intent, Understanding[pr.user_text_english].entities, ri.confidence,
                   FALSE, None, FALSE, None),
                 "Done")]
  /\ UNCHANGED <<component_vars, language_configs, config_heap, config_writer, pending_disambiguations, issued_ids,
                 resolved_ids, cache, cache_ops, resolver, resolve_calls>>

(* ---------------- the components, called one at a time ---------------- *)
\* the bytes a detect call is given
VadBytes == {0, 1, 255}

VadAppendByte(b) ==
  /\ vad_call.st = "building"
  /\ Len(vad_call.audio_chunk) < MaxBytes
  /\ vad_call' = [vad_call EXCEPT !.audio_chunk = Append(@, b)]
  /\ UNCHANGED <<pipeline_vars, config_read, nmt_call, cache, intent_call, chain_heap, caller_chain, next_fallback,
                 cache_log, cache_lookup, request_call>>

\* VoiceActivityDetector.detect(audio_chunk)
Detect ==
  /\ vad_call.st = "building"
  /\ LET vad_result == detect(vad_call.audio_chunk)
     IN vad_call' = [vad_call EXCEPT
          !.st = IF vad_result.raised # Null THEN "raised" ELSE "returned",
          !.result = vad_result]
  /\ UNCHANGED <<pipeline_vars, config_read, nmt_call, cache, intent_call, chain_heap, caller_chain, next_fallback,
                 cache_log, cache_lookup, request_call>>

\* the words the texts given to the recognizer are made of
Vocabulary ==
  {<<"r", "i", "c", "e">>,
   <<"p", "a", "d", "d", "y">>,
   <<"m", "i", "l", "l", "e", "t">>,
   <<"p", "r", "i", "c", "e">>,
   <<"r", "a", "t", "e">>,
   <<"w", "h", "e", "a", "t">>,
   <<"s", "o", "y", "b", "e", "a", "n">>,
   <<"m", "a", "n", "d", "i">>,
   <<"W", "e", "a", "t", "h", "e", "r">>,
   <<"r", "a", "t", "e", " ", "r", "a", "t", "e">>}

\* the confidences is_ambiguous is asked with, in hundredths
Confidences == {0, 59, 60, 95}

\* the text of a call: its words, one space between two
TextOf(words) == Join(<<" ">>, words)

IntentAppendWord(w) ==
  /\ intent_call.st = "building"
  /\ Len(intent_call.words) < MaxWords
  /\ intent_call' = [intent_call EXCEPT !.words = Append(@, w)]
  /\ UNCHANGED <<pipeline_vars, config_read, nmt_call, cache, vad_call, chain_heap, caller_chain, next_fallback,
                 cache_log, cache_lookup, request_call>>

\* IntentRecognizer.recognize_intent(text)
RecognizeIntent ==
  /\ intent_call.st = "building"
  /\ intent_call.words # <<>>
  /\ LET ri == recognize_intent(TextOf(intent_call.words))
     IN intent_call' = [intent_call EXCEPT !.st = "recognized", !.intent = ri.intent,
                                           !.confidence = ri.confidence]
  /\ UNCHANGED <<pipeline_vars, config_read, nmt_call, cache, vad_call, chain_heap, caller_chain, next_fallback,
                 cache_log, cache_lookup, request_call>>

\* IntentRecognizer.is_ambiguous(text, confidence)
IsAmbiguous(confidence) ==
  /\ intent_call.st = "recognized"
  /\ intent_call' = [intent_call EXCEPT
       !.st = "checked", !.asked_confidence = confidence,
       !.result = is_ambiguous(TextOf(intent_call.words), confidence)]
  /\ UNCHANGED <<pipeline_vars, config_read, nmt_call, cache, vad_call, chain_heap, caller_chain, next_fallback,
                 cache_log, cache_lookup, request_call>>

\* the modes get_next_fallback is asked about
FallbackModes == {"voice", "text", "cached"}

\* what a caller does to the list it was handed
CallerOps == {"pop", "reverse", "clear"}

Reverse(list) == [i \in 1..Len(list) |-> list[Len(list) + 1 - i]]

\* list.pop(), list.reverse(), list.clear()
Mutate(op, list) ==
  CASE op = "pop" -> SubSeq(list, 1, Len(list) - 1)
    [] op = "reverse" -> Reverse(list)
    [] OTHER -> <<>>

\* FallbackHandler.get_fallback_chain()
GetFallbackChain ==
  /\ Len(chain_heap) < MaxLists
  /\ LET out == get_fallback_chain(chain_heap)
     IN /\ chain_heap' = out.heap
        /\ caller_chain' = out.ref
  /\ UNCHANGED <<pipeline_vars, config_read, nmt_call, cache, vad_call, intent_call, next_fallback, cache_log,
                 cache_lookup, request_call>>

\* the caller changes the list get_fallback_chain returned
CallerMutatesChain(op) ==
  /\ caller_chain # 0
  /\ chain_heap[caller_chain] # <<>>
  /\ chain_heap' = [chain_heap EXCEPT ![caller_chain] = Mutate(op, @)]
  /\ UNCHANGED <<pipeline_vars, config_read, nmt_call, cache, vad_call, intent_call, caller_chain, next_fallback,
                 cache_log, cache_lookup, request_call>>

\* FallbackHandler.get_next_fallback(failed_mode)
GetNextFallback(failed_mode) ==
  /\ next_fallback' =
       [failed_mode |-> failed_mode,
        answer |-> get_next_fallback(chain_heap[1], failed_mode),
        caller_list |-> IF caller_chain = 0 THEN None ELSE chain_heap[caller_chain]]
  /\ UNCHANGED <<pipeline_vars, config_read, nmt_call, cache, vad_call, intent_call, chain_heap, caller_chain,
                 cache_log, cache_lookup, request_call>>

\* FallbackHandler.cache_response(query, response), the calls kept in order
CacheResponseLogged(query, response) ==
  /\ Len(cache_log) < MaxCacheLog
  /\ cache' = cache_response(cache, query, response)
  /\ cache_log' = Append(cache_log, [query |-> query, response |-> response])
  /\ UNCHANGED <<pipeline_vars, config_read, nmt_call, vad_call, intent_call, chain_heap, caller_chain, next_fallback,
                 cache_lookup, request_call>>

\* FallbackHandler.get_cached_response(query)
GetCachedResponse(query) ==
  /\ cache_lookup' = [query |-> query, answer |-> get_cached_response(cache, query)]
  /\ UNCHANGED <<pipeline_vars, config_read, nmt_call, cache, vad_call, intent_call, chain_heap, caller_chain,
                 next_fallback, cache_log, request_call>>

\* what the service can do to one attempt of a _make_request call
ServiceOutcomes == AttemptOutcomes \cup {"http_error_404"}

\* _make_request is called
MakeRequestCall ==
  /\ request_call.st = "idle"
  /\ request_call' = [request_call EXCEPT !.st = LoopHead(0).st, !.result = LoopHead(0).result]
  /\ UNCHANGED <<pipeline_vars, config_read, nmt_call, cache, vad_call, intent_call, chain_heap, caller_chain,
                 next_fallback, cache_log, cache_lookup>>

\* the HTTP attempt of the call ends; lines 68-93
AttemptEnds(outcome) ==
  /\ request_call.st = "attempting"
  /\ LET step == MakeRequestStep(request_call.attempt, outcome)
     IN request_call' =
          [request_call EXCEPT
             !.outcomes = Append(@, outcome),
             !.st = CASE step.next = "return" -> "returned"
                      [] step.next = "raise" -> "raised"
                      [] OTHER -> "sleeping",
             !.result = IF step.next = "raise" THEN step.exc ELSE Null,
             !.waits = IF step.next = "continue" THEN Append(@, step.wait) ELSE @]
  /\ UNCHANGED <<pipeline_vars, config_read, nmt_call, cache, vad_call, intent_call, chain_heap, caller_chain,
                 next_fallback, cache_log, cache_lookup>>

\* asyncio.sleep returns and the loop goes on
SleepEnds ==
  /\ request_call.st = "sleeping"
  /\ request_call' = [request_call EXCEPT
       !.attempt = @ + 1,
       !.st = LoopHead(request_call.attempt + 1).st,
       !.result = LoopHead(request_call.attempt + 1).result]
  /\ UNCHANGED <<pipeline_vars, config_read, nmt_call, cache, vad_call, intent_call, chain_heap, caller_chain,
                 next_fallback, cache_log, cache_lookup>>

(* ---------------- calls on the session registry ---------------- *)
\* the sessions a caller configures by name, next to the one process_voice creates
RegistrySessions == Sessions \cup {"s2"}

\* get_language_config(session_id): dict.get, which stores nothing
GetLanguageConfig(session_id) ==
  /\ config_read' = [session_id |-> session_id,
                     result |-> get_language_config(language_configs, config_heap, session_id)]
  /\ UNCHANGED <<pipeline_vars, cache, call_vars, nmt_call>>

(* ---------------- calls on the NMT client ---------------- *)
NmtLanguages == RequestLanguages

\* the texts and the lists of texts the client is called with
NmtCallTexts == {<<>>, T_hello}

NmtBatches == {<<>>, <<T_hello>>, <<T_hello, T_weather>>}

\* the translations a batch request can be answered with: none, fewer, as many
NmtBatchAnswers == {<<>>, <<T_weather>>, <<T_weather, T_weather>>}

\* (time.time() - start_time) * 1000 of a call that made a request
ElapsedMs == {0, 40}

\* NMTClient.translate(text, source_language, target_language) up to its request
TranslateCall(text, source_language, target_language) ==
  /\ nmt_call.st = "idle"
  /\ nmt_call' =
       IF identity_pass(source_language, target_language)
       THEN [st |-> "returned", site |-> "translate", texts |-> <<text>>,
             source_language |-> source_language, target_language |-> target_language,
             requests |-> 0,
             result |-> [raised |-> Null,
                         responses |-> <<TranslationResponse(
                                           text, translate_identity(text).translated_text,
                                           source_language, target_language,
                                           translate_identity(text).confidence, 0)>>]]
       ELSE [st |-> "requesting", site |-> "translate", texts |-> <<text>>,
             source_language |-> source_language, target_language |-> target_language,
             requests |-> 1, result |-> Null]
  /\ UNCHANGED <<pipeline_vars, cache, call_vars, config_read>>

\* the request of a translate call ends; lines 273-305
TranslateRequestEnds(res, target, ms) ==
  /\ nmt_call.st = "requesting"
  /\ nmt_call.site = "translate"
  /\ LET r == translate(nmt_call.texts[1], res, target)
     IN nmt_call' =
          [nmt_call EXCEPT
             !.st = IF r.raised # Null THEN "raised" ELSE "returned",
             !.result = [raised |-> r.raised,
                         responses |-> IF r.raised # Null THEN <<>>
                                       ELSE <<TranslationResponse(
                                                nmt_call.texts[1], r.translated_text,
                                                nmt_call.source_language,
                                                nmt_call.target_language, r.confidence, ms)>>]]
  /\ UNCHANGED <<pipeline_vars, cache, call_vars, config_read>>

\* NMTClient.translate_batch(texts, source_language, target_language) up to its request
TranslateBatchCall(texts, source_language, target_language) ==
  /\ nmt_call.st = "idle"
  /\ nmt_call' =
       IF identity_pass(source_language, target_language)
       THEN [st |-> "returned", site |-> "translate_batch", texts |-> texts,
             source_language |-> source_language, target_language |-> target_language,
             requests |-> 0,
             result |-> [raised |-> Null,
                         responses |-> translate_batch_identity(texts, source_language,
                                                                target_language)]]
       ELSE [st |-> "requesting", site |-> "translate_batch", texts |-> texts,
             source_language |-> source_language, target_language |-> target_language,
             requests |-> 1, result |-> Null]
  /\ UNCHANGED <<pipeline_vars, cache, call_vars, config_read>>

\* the request of a translate_batch call ends; lines 346-375
TranslateBatchRequestEnds(res, translations) ==
  /\ nmt_call.st = "requesting"
  /\ nmt_call.site = "translate_batch"
  /\ LET r == translate_batch(nmt_call.texts, res, translations, nmt_call.source_language,
                              nmt_call.target_language)
     IN nmt_call' = [nmt_call EXCEPT
                      !.st = IF r.raised # Null THEN "raised" ELSE "returned",
                      !.result = r]
  /\ UNCHANGED <<pipeline_vars, cache, call_vars, config_read>>

(* ---------------- specifications ---------------- *)
\* the pipeline: the session registry, the response cache and process_voice
Next ==
  \/ \E s \in Sessions, l \in SessionLanguages : ConfigureLanguage(s, l)
  \/ \E s \in Sessions, l \in SessionLanguages : switch_language(s, l)
  \/ \E q \in CacheQueries, a \in CacheResponses : CacheResponse(q, a)
  \/ \E p \in Procs, request \in Requests : ProcessVoiceStart(p, request)
  \/ \E p \in Procs, res \in GatewayResults, t \in AsrTexts : AsrComplete(p, res, t)
  \/ \E p \in Procs, res \in GatewayResults, t \in NmtTexts : NmtComplete(p, res, t)
  \/ \E p \in Procs, res \in GatewayResults, t \in NmtTexts : NmtBackComplete(p, res, t)
  \/ \E p \in Procs, res \in GatewayResults, a \in TtsAudios : TtsComplete(p, res, a)

Spec == Init /\ [][Next]_vars

\* the disambiguation handler next to the session registry
NextDisambiguation ==
  \/ \E s \in Sessions, l \in SessionLanguages : ConfigureLanguage(s, l)
  \/ \E s \in Sessions, l \in SessionLanguages : switch_language(s, l)
  \/ \E o \in OptionLists : CreateDisambiguation(T_mandi_rate, o, "hi")
  \/ \E r \in Resolvers, id \in ResolvableIds(issued_ids) : CallResolve(r, id, T_hello)
  \/ \E r \in Resolvers, id \in ResolvableIds(issued_ids) : CallResolve(r, id, price_options[1])
  \/ \E r \in Resolvers : RunResolve(r)

SpecDisambiguation == Init /\ [][NextDisambiguation]_vars

\* the session registry: its writers, its reader, and the start of process_voice,
\* the only part of it that reads or writes language_configs (lines 453-456)
NextRegistry ==
  \/ \E s \in RegistrySessions, l \in SessionLanguages : ConfigureLanguage(s, l)
  \/ \E s \in RegistrySessions, l \in SessionLanguages : switch_language(s, l)
  \/ \E s \in RegistrySessions \cup {"u1"} : GetLanguageConfig(s)
  \/ \E p \in Procs, request \in Requests : ProcessVoiceStart(p, request)

SpecRegistry == Init /\ [][NextRegistry]_vars

\* the translation call sites: the two methods of the NMT client, and process_voice
NextNmt ==
  \/ \E t \in NmtCallTexts, sl \in NmtLanguages, tl \in NmtLanguages : TranslateCall(t, sl, tl)
  \/ \E res \in GatewayResults, t \in NmtTexts, ms \in ElapsedMs : TranslateRequestEnds(res, t, ms)
  \/ \E ts \in NmtBatches, sl \in NmtLanguages, tl \in NmtLanguages : TranslateBatchCall(ts, sl, tl)
  \/ \E res \in GatewayResults, ts \in NmtBatchAnswers : TranslateBatchRequestEnds(res, ts)
  \/ \E p \in Procs, request \in Requests : ProcessVoiceStart(p, request)
  \/ \E p \in Procs, res \in GatewayResults, t \in AsrTexts : AsrComplete(p, res, t)
  \/ \E p \in Procs, res \in GatewayResults, t \in NmtTexts : NmtComplete(p, res, t)
  \/ \E p \in Procs, res \in GatewayResults, t \in NmtTexts : NmtBackComplete(p, res, t)
  \/ \E p \in Procs, res \in GatewayResults, a \in TtsAudios : TtsComplete(p, res, a)

SpecNmt == Init /\ [][NextNmt]_vars

\* the voice activity detector on its own
NextVad ==
  \/ \E b \in VadBytes : VadAppendByte(b)
  \/ Detect

SpecVad == Init /\ [][NextVad]_vars

\* the intent recognizer on its own
NextIntent ==
  \/ \E w \in Vocabulary : IntentAppendWord(w)
  \/ RecognizeIntent
  \/ \E c \in Confidences \cup {intent_call.confidence} : IsAmbiguous(c)

SpecIntent == Init /\ [][NextIntent]_vars

\* the fallback chain of the fallback handler
NextFallback ==
  \/ GetFallbackChain
  \/ \E op \in CallerOps : CallerMutatesChain(op)
  \/ \E m \in FallbackModes : GetNextFallback(m)

SpecFallback == Init /\ [][NextFallback]_vars

\* the response cache of the fallback handler
NextCache ==
  \/ \E q \in CacheQueries, a \in CacheResponses : CacheResponseLogged(q, a)
  \/ \E q \in CacheQueries : GetCachedResponse(q)

SpecCache == Init /\ [][NextCache]_vars

\* one request of the gateway client
NextGateway ==
  \/ MakeRequestCall
  \/ \E o \in ServiceOutcomes : AttemptEnds(o)
  \/ SleepEnds

SpecGateway == Init /\ [][NextGateway]_vars



(* ---------------- properties ---------------- *)
Returned(p) == proc[p].pc = "returned"

\* C1: once a resolve_disambiguation on a confirmation id has succeeded, every
\* later resolve_disambiguation on that id returns None, whatever was
\* created or resolved in between.
C1_SingleUse ==
  [][\A r \in Resolvers :
       (/\ resolver[r].st = "inflight"
        /\ resolver'[r].st = "returned"
        /\ resolver[r].confirmation_id \in resolved_ids)
       => resolver'[r].result = Null]_vars

\* a second resolve on a resolved id has returned None
C1_Witness ==
  \E r \in Resolvers :
    /\ resolver[r].st = "returned"
    /\ resolver[r].confirmation_id \in resolved_ids
    /\ resolver[r].result = Null

\* C2: of two resolve_disambiguation calls that were both in flight on the same
\* pending confirmation id, exactly one returns a resolution and the other
\* returns None.
C2_OneOfTwoResolves ==
  \A r1, r2 \in Resolvers :
    (/\ r1 # r2
     /\ resolver[r1].st = "returned" /\ resolver[r2].st = "returned"
     /\ resolver[r1].confirmation_id = resolver[r2].confirmation_id
     /\ resolver[r1].saw_pending /\ resolver[r2].saw_pending)
    => (resolver[r1].result = Null) # (resolver[r2].result = Null)

\* two calls that met the same pending id have both returned
C2_Witness ==
  \E r1, r2 \in Resolvers :
    /\ r1 # r2
    /\ resolver[r1].st = "returned" /\ resolver[r2].st = "returned"
    /\ resolver[r1].confirmation_id = resolver[r2].confirmation_id
    /\ resolver[r1].saw_pending /\ resolver[r2].saw_pending
    /\ resolver[r1].result # Null /\ resolver[r2].result = Null

\* C3: a process_voice call that returned disambiguation_required = true has left
\* a pending record for the query and the options of that turn.
C3_DisambiguationLeavesPending ==
  \A p \in Procs :
    (Returned(p) /\ proc[p].response.disambiguation_required)
    => \E id \in DOMAIN pending_disambiguations :
         /\ pending_disambiguations[id].query = proc[p].response.user_text_english
         /\ pending_disambiguations[id].options = proc[p].response.disambiguation_options

\* C4: a process_voice call that found the config stored by switch_language(s, L)
\* issues its ASR, NMT and TTS requests in the language L, whatever the
\* request's source_language.
C4_RequestsInSessionLanguage ==
  \A p \in Procs :
    proc[p].cfg_writer = "switch_language"
    => \A i \in 1..Len(proc[p].calls) :
         LET call == proc[p].calls[i]
             L == proc[p].cfg_seen.source_language
         IN CASE call.svc = "nmt" -> L \in {call.source_language, call.target_language}
              [] OTHER -> call.language = L

\* C5: switch_language(s, L) on a configured session s stores a config with
\* source_language = L whose target_language, asr_model, nmt_model, tts_voice and
\* tts_speed are those of the config it replaces, and leaves the pending
\* disambiguations as they were.
C5_SwitchKeepsSettings ==
  [][\A s \in Sessions, l \in Languages :
       switch_language(s, l)
       => /\ pending_disambiguations' = pending_disambiguations
          /\ get_language_config(language_configs', config_heap', s).source_language = l
          /\ s \in DOMAIN language_configs
             => LET old == get_language_config(language_configs, config_heap, s)
                    new == get_language_config(language_configs', config_heap', s)
                IN /\ new.target_language = old.target_language
                   /\ new.asr_model = old.asr_model
                   /\ new.nmt_model = old.nmt_model
                   /\ new.tts_voice = old.tts_voice
                   /\ new.tts_speed = old.tts_speed]_vars

\* a configured session was switched to Tamil while a disambiguation was pending
C5_Witness ==
  /\ "s1" \in DOMAIN language_configs
  /\ config_writer["s1"] = "switch_language"
  /\ Len(config_heap) >= 2
  /\ config_heap[1].source_language = "hi"
  /\ get_language_config(language_configs, config_heap, "s1").source_language = "ta"
  /\ DOMAIN pending_disambiguations # {}

\* C6: the config a reader holds is one config in full: the object process_voice
\* fetched stays as it was fetched while switch_language calls run, and the
\* config get_language_config returns is the complete config of one write.
C6_NoTornConfig ==
  /\ \A p \in Procs :
       proc[p].lang_config # 0 => config_heap[proc[p].lang_config] = proc[p].cfg_seen
  /\ \A s \in DOMAIN language_configs :
       \E l \in Languages :
         get_language_config(language_configs, config_heap, s) = LanguageConfig(l)

\* a process_voice call is suspended on the gateway while its session was switched
C6_Witness ==
  \E p \in Procs :
    /\ proc[p].pc \in {"asr", "nmt", "nmt_back", "tts"}
    /\ language_configs[proc[p].session_id] # proc[p].lang_config
    /\ config_writer[proc[p].session_id] = "switch_language"

ResponseFields ==
  {"session_id", "user_text", "user_text_english", "system_response",
   "system_response_audio", "intent", "entities", "confidence",
   "disambiguation_required", "disambiguation_options", "fallback_used", "fallback_reason"}

\* C7: process_voice never lets an exception out: whatever the request and the
\* gateway do, a call that ended has returned a VoiceProcessingResponse.
C7_ProcessVoiceTotal ==
  \A p \in Procs :
    /\ proc[p].pc # "raised"
    /\ Returned(p) => /\ DOMAIN proc[p].response = ResponseFields
                      /\ proc[p].outcome \in {"NoSpeech", "Disambiguate", "Done", "Fallback"}

\* a call whose TTS request was answered by an unreadable body has returned the fallback
C7_Witness ==
  \E p \in Procs :
    /\ Returned(p)
    /\ proc[p].outcome = "Fallback"
    /\ proc[p].calls # <<>>
    /\ proc[p].calls[Len(proc[p].calls)].svc = "tts"
    /\ <<"Expecting value">> = proc[p].error_text
    /\ proc[p].response.fallback_used

\* C8: a process_voice call one of whose gateway requests ended in a
\* BhashiniAPIError (retries exhausted or a permanent error) returns the fallback.
C8_GatewayFailureFallsBack ==
  \A p \in Procs :
    (Returned(p) /\ proc[p].gateway_failed)
    => (proc[p].outcome = "Fallback" /\ proc[p].response.fallback_used)

\* C9: a fallback with enable_fallback = true answers with the response cached for
\* the best query text the call has (its transcript, if ASR gave one), and with
\* the "please repeat or type" message if none is cached for it.
C9_FallbackLooksUpTranscript ==
  [][\A p \in Procs :
       (/\ ~ Returned(p)
        /\ proc'[p].pc = "returned"
        /\ proc'[p].outcome = "Fallback"
        /\ proc'[p].request.enable_fallback)
       => LET hit == get_cached_response(cache, proc'[p].user_text)
          IN proc'[p].response.system_response =
               IF hit # None /\ hit # <<>> THEN hit
               ELSE <<"Voice recognition failed. Please repeat your query or type it instead.">>]_vars

\* C10: a fallback response has fallback_used = true, a fallback_reason that
\* contains the error text that triggered it, and neither intent nor entities;
\* an empty ASR transcript ends in a fallback whose reason contains "ASR failed";
\* with enable_fallback = false the answer is the fixed "please try again"
\* message, whatever the cache holds.
C10_FallbackResponse ==
  \A p \in Procs :
    /\ (Returned(p) /\ proc[p].outcome = "Fallback")
       => /\ proc[p].response.fallback_used
          /\ Contains(proc[p].error_text, proc[p].response.fallback_reason)
          /\ proc[p].response.intent = None
          /\ proc[p].response.entities = Null
          /\ ~ proc[p].request.enable_fallback
             => proc[p].response.system_response =
                  <<"Voice processing failed. Please try again or use text input.">>
    /\ (Returned(p) /\ <<>> = proc[p].asr_text)
       => /\ proc[p].outcome = "Fallback"
          /\ Contains(<<"ASR failed">>, proc[p].response.fallback_reason)

\* an empty transcript ended in a fallback with fallback disabled and a cached answer at hand
C10_Witness ==
  \E p \in Procs :
    /\ Returned(p)
    /\ <<>> = proc[p].asr_text
    /\ proc[p].outcome = "Fallback"
    /\ ~ proc[p].request.enable_fallback
    /\ <<"cached answer">> = get_cached_response(cache, <<>>)
    /\ proc[p].response.fallback_reason = <<"ASR failed">>

\* C11: a request whose audio the VAD takes for silence (all-zero 16-bit PCM, or
\* an odd number of bytes) is answered at once: empty transcripts, the fixed
\* no-speech message, confidence 0.0, fallback_used = false, and no ASR, NMT or
\* TTS request in that run.
C11_NoSpeechReturnsAtOnce ==
  \A p \in Procs :
    /\ proc[p].pc # "idle"
       => LET audio == proc[p].request.audio_data
          IN (/\ audio.b64_valid
              /\ audio.bytes # <<>>
              /\ \/ Len(audio.bytes) % 2 = 1
                 \/ \A i \in 1..Len(audio.bytes) : audio.bytes[i] = 0)
             => (Returned(p) /\ proc[p].outcome = "NoSpeech")
    /\ (Returned(p) /\ proc[p].outcome = "NoSpeech")
       => /\ proc[p].calls = <<>>
          /\ proc[p].response.user_text = <<>>
          /\ proc[p].response.user_text_english = <<>>
          /\ proc[p].response.system_response =
               <<"Could not detect speech. Please speak clearly.">>
          /\ proc[p].response.confidence = 0
          /\ ~ proc[p].response.fallback_used

\* a request of four zero bytes was answered with the no-speech response
C11_Witness ==
  \E p \in Procs :
    /\ Returned(p)
    /\ proc[p].request.audio_data.bytes = <<0, 0, 0, 0>>
    /\ proc[p].outcome = "NoSpeech"
    /\ proc[p].calls = <<>>

\* C12: process_voice returns disambiguation_required = true exactly when
\* is_ambiguous reports ambiguity with options; on that branch no response is
\* generated and no translation back or TTS is requested; ambiguity reported
\* with no options (confidence under 0.6) goes on to response generation.
C12_DisambiguationBranch ==
  \A p \in Procs :
    LET amb == Understanding[proc[p].user_text_english].amb
        asks == amb.ambiguous /\ amb.options # <<>>
        later == {i \in 1..Len(proc[p].calls) :
                    \/ proc[p].calls[i].svc = "tts"
                    \/ proc[p].calls[i].svc = "nmt" /\ proc[p].calls[i].source_language = "en"}
        past_step_5 == later # {}
        generated == proc[p].calls[CHOOSE i \in later : \A j \in later : i <= j].text
    IN /\ (Returned(p) /\ proc[p].response.disambiguation_required)
          => /\ asks
             /\ proc[p].response.disambiguation_options = amb.options
             /\ proc[p].system_response = <<>>
             /\ ~ past_step_5
       /\ (Returned(p) /\ proc[p].outcome \in {"Done", "Disambiguate"})
          => (proc[p].response.disambiguation_required <=> asks)
       /\ past_step_5 => (~ asks /\ generated # <<>>)

\* a transcript of no known intent, ambiguous with no options, went on to the TTS request
C12_Witness ==
  \E p \in Procs :
    /\ Returned(p)
    /\ proc[p].outcome = "Done"
    /\ proc[p].user_text_english = T_hello
    /\ Understanding[T_hello].amb.ambiguous
    /\ Understanding[T_hello].amb.options = <<>>
    /\ ~ proc[p].response.disambiguation_required

\* C13: an English request transcribed as "wheat price", the gateway working, has
\* intent price_query, is not ambiguous, and ends in Done with
\* disambiguation_required = false, a generated response, a TTS request and no
\* NMT request.
C13_ScenarioA ==
  \A p \in Procs :
    (/\ Returned(p)
     /\ proc[p].request.source_language = "en"
     /\ proc[p].user_text = T_wheat_price
     /\ ~ proc[p].gateway_failed
     /\ proc[p].outcome # "Fallback")
    => /\ proc[p].response.intent = "price_query"
       /\ ~ Understanding[T_wheat_price].amb.ambiguous
       /\ proc[p].outcome = "Done"
       /\ ~ proc[p].response.disambiguation_required
       /\ proc[p].response.system_response # <<>>
       /\ \E i \in 1..Len(proc[p].calls) : proc[p].calls[i].svc = "tts"
       /\ \A i \in 1..Len(proc[p].calls) : proc[p].calls[i].svc # "nmt"

\* C14: is_ambiguous answers by its first applicable rule: a text that names an
\* ambiguous crop term (rice, millet, oilseed) and none of its variants is
\* ambiguous with the variants of the first such term, price query or not.
C14_CropRuleFirst ==
  LET text == TextOf(intent_call.words)
      Names(t) == Contains(<<" ">> \o t \o <<" ">>, <<" ">> \o Lower(text) \o <<" ">>)
      Applies(k) == /\ Names(ambiguous_crops[k].crop)
                    /\ \A v \in 1..Len(ambiguous_crops[k].variants) :
                         ~ Names(ambiguous_crops[k].variants[v])
  IN intent_call.st = "checked"
     => \A k \in 1..Len(ambiguous_crops) :
          (Applies(k) /\ \A j \in 1..(k - 1) : ~ Applies(j))
          => /\ intent_call.result.ambiguous
             /\ intent_call.result.options = ambiguous_crops[k].variants

\* C15: a text about price or rate that names none of the fixed crops, and no
\* ambiguous crop term without a variant, is ambiguous with a non-empty option
\* list, and the options are the fixed crops whose absence triggers the rule.
C15_PriceRuleOptions ==
  LET text == TextOf(intent_call.words)
      Names(t) == Contains(<<" ">> \o t \o <<" ">>, <<" ">> \o Lower(text) \o <<" ">>)
      Applies(k) == /\ Names(ambiguous_crops[k].crop)
                    /\ \A v \in 1..Len(ambiguous_crops[k].variants) :
                         ~ Names(ambiguous_crops[k].variants[v])
  IN (/\ intent_call.st = "checked"
      /\ \E w \in 1..Len(price_words) : Names(price_words[w])
      /\ \A w \in 1..Len(price_crop_words) : ~ Names(price_crop_words[w])
      /\ \A k \in 1..Len(ambiguous_crops) : ~ Applies(k))
     => /\ intent_call.result.ambiguous
        /\ intent_call.result.options # <<>>
        /\ intent_call.result.options = price_crop_words

\* C16: detect never raises, and for an empty or an odd-length audio_chunk it
\* returns is_speech = false with confidence 0.0.
C16_DetectNeverRaises ==
  /\ vad_call.st # "raised"
  /\ (vad_call.st = "returned" /\ (vad_call.audio_chunk = <<>> \/ Len(vad_call.audio_chunk) % 2 = 1))
     => (~ vad_call.result.is_speech /\ vad_call.result.confidence = 0)

\* C17: get_next_fallback answers text after voice, cached after text and None
\* after cached, whatever was done before, a caller changing the list it got
\* from get_fallback_chain included: the handler's chain stays voice, text, cached.
C17_FallbackOrder ==
  /\ chain_heap[1] = <<"voice", "text", "cached">>
  /\ next_fallback # Null
     => next_fallback.answer =
          CASE next_fallback.failed_mode = "voice" -> "text"
            [] next_fallback.failed_mode = "text" -> "cached"
            [] OTHER -> None

\* get_next_fallback(text) was answered after the caller had emptied its list
C17_Witness ==
  /\ next_fallback # Null
  /\ next_fallback.failed_mode = "text"
  /\ next_fallback.answer = "cached"
  /\ <<>> = next_fallback.caller_list

\* C18: get_cached_response(q) answers with the response of the latest
\* cache_response call whose query is q up to letter case and surrounding
\* whitespace, with None if there was none, and leaves the cache as it is.
C18_CacheLookup ==
  [][cache_lookup' # cache_lookup
     => LET SameQuery(a, b) == Lower(Strip(a)) = Lower(Strip(b))
            calls == {i \in 1..Len(cache_log) : SameQuery(cache_log[i].query, cache_lookup'.query)}
            latest == CHOOSE i \in calls : \A j \in calls : j <= i
        IN /\ cache' = cache
           /\ IF calls = {} THEN cache_lookup'.answer = None
              ELSE cache_log[latest].response = cache_lookup'.answer]_vars

\* a lookup in capitals with a newline found the second of two responses cached in lower case
C18_Witness ==
  /\ cache_lookup # Null
  /\ Len(cache_log) = 2
  /\ cache_log[1].query = T_wheat_price /\ cache_log[2].query = T_wheat_price
  /\ cache_log[1].response # cache_log[2].response
  /\ cache_lookup.query # T_wheat_price
  /\ cache_log[2].response = cache_lookup.answer

C20_TypedErrors ==
  LET n == Len(request_call.outcomes)
  IN /\ (n > 0 /\ request_call.outcomes[n] \in DOMAIN http_error_status)
        => /\ request_call.st = "raised"
           /\ request_call.result.type = "BhashiniAPIError"
           /\ request_call.result.error_code = api_error_code[request_call.outcomes[n]]
           /\ Len(request_call.waits) = n - 1
     /\ (request_call.st = "raised" /\ request_call.result.error_code = "MAX_RETRIES_EXCEEDED")
        => /\ n = retry_count
           /\ \A i \in 1..n : request_call.outcomes[i] \in {"timeout", "client_error", "rate_limited"}

\* a call was ended by a 404 on its last attempt, after two retries
C20_Witness ==
  /\ request_call.st = "raised"
  /\ request_call.outcomes = <<"rate_limited", "timeout", "http_error_404">>
  /\ request_call.result.error_code = "API_ERROR_404"

\* C21: within one _make_request call the wait before each retry is strictly
\* longer than the wait before the previous retry, whatever mix of 429 answers,
\* timeouts and client errors the attempts ended in. (The sleep after the last
\* allowed attempt precedes no retry and is left out.)
C21_BackoffIncreasing ==
  \A i \in 1..Len(request_call.waits) :
    (i > 1 /\ i < retry_count) => request_call.waits[i - 1] < request_call.waits[i]

\* C23: recognize_intent returns what the reference returns: for each intent, in
\* table order, matchCount is the number of matches of all that intent's patterns
\* in the lower-cased text and the score is min(0.5 + 0.1 * matchCount, 0.95);
\* the matching intent of highest score is returned, the earlier one on a tie,
\* and ("general_query", 0.0) when no pattern matches.
C23_ReferenceIntent ==
  LET text_lower == Lower(TextOf(intent_call.words))
      RECURSIVE matchCount(_, _)
      matchCount(i, j) ==
        IF j > Len(INTENT_PATTERNS[i].patterns) THEN 0
        ELSE FindAllCount(INTENT_PATTERNS[i].patterns[j], text_lower, 1) + matchCount(i, j + 1)
      score(i) == Min(50 + 10 * matchCount(i, 1), 95)
      matching == {i \in 1..Len(INTENT_PATTERNS) : matchCount(i, 1) > 0}
      best == CHOOSE i \in matching :
                \A k \in matching : score(i) > score(k) \/ (score(i) = score(k) /\ i <= k)
  IN intent_call.st = "recognized"
     => IF matching = {}
        THEN intent_call.intent = "general_query" /\ intent_call.confidence = 0
        ELSE /\ intent_call.intent = INTENT_PATTERNS[best].intent
             /\ intent_call.confidence = score(best)

C25_RegistryLastWrite ==
  [][\A s \in RegistrySessions \cup {"u1"} :
       LET before == get_language_config(language_configs, config_heap, s)
           after == get_language_config(language_configs', config_heap', s)
           written ==
             {l \in Languages :
                \/ ConfigureLanguage(s, l)
                \/ switch_language(s, l)
                \/ \E p \in Procs :
                     /\ proc[p].pc = "idle" /\ proc'[p].pc # "idle"
                     /\ proc'[p].session_id = s
                     /\ proc'[p].request.source_language = l
                     /\ s \notin DOMAIN language_configs}
       IN /\ \A l \in written : after = LanguageConfig(l)
          /\ written = {} => after = before
          /\ (s \notin DOMAIN config_writer /\ written = {}) => after = Null
          /\ GetLanguageConfig(s)
             => /\ config_read'.result = after
                /\ language_configs' = language_configs
                /\ config_heap' = config_heap]_vars

\* s1 was configured and then switched to Tamil, a process_voice call without
\* session id has configured its own session, and a get on s1 has answered with
\* the Tamil config
C25_Witness ==
  /\ Len(config_heap) >= 3
  /\ {"s1", "u1"} \subseteq DOMAIN language_configs
  /\ language_configs["s1"] = 2
  /\ config_heap[1].source_language = "hi" /\ language_configs["u1"] = 3
  /\ proc["p1"].session_id = "u1" /\ proc["p1"].request.source_language = "en"
  /\ config_read = [session_id |-> "s1", result |-> LanguageConfig("ta")]

\* C26: create_disambiguation returns an id that was never issued before, pending
\* or resolved, and stores one record under it, leaving every other record as it
\* was; so the pending map holds exactly the ids created and not yet resolved, and
\* a resolve_disambiguation on a pending id succeeds and echoes the selected option.
C26_FreshIds ==
  [][/\ DOMAIN pending_disambiguations' = issued_ids' \ resolved_ids'
     /\ \A o \in OptionLists :
          CreateDisambiguation(T_mandi_rate, o, "hi")
          => LET new == DOMAIN pending_disambiguations' \ DOMAIN pending_disambiguations
             IN /\ Cardinality(new) = 1
                /\ new \cap (issued_ids \cup resolved_ids) = {}
                /\ \A id \in new :
                     pending_disambiguations'[id] = DisambiguationRequest(T_mandi_rate, o, "hi")
                /\ \A id \in DOMAIN pending_disambiguations :
                     /\ id \in DOMAIN pending_disambiguations'
                     /\ pending_disambiguations'[id] = pending_disambiguations[id]
     /\ \A r \in Resolvers :
          (/\ resolver[r].st = "inflight" /\ resolver'[r].st = "returned"
           /\ resolver[r].confirmation_id \in DOMAIN pending_disambiguations)
          => /\ resolver'[r].result # Null
             /\ resolver'[r].result.selected_option = resolver[r].selected_option]_vars

\* two ids were issued, the first was resolved with the option asked for and the
\* second is the one pending record
C26_Witness ==
  /\ issued_ids = {"c1", "c2"}
  /\ resolved_ids = {"c1"}
  /\ DOMAIN pending_disambiguations = {"c2"}
  /\ \E r \in Resolvers :
       /\ resolver[r].st = "returned" /\ resolver[r].confirmation_id = "c1"
       /\ resolver[r].result # Null
       /\ resolver[r].result.selected_option = price_options[1]

\* C27: resolve_disambiguation on an id that is not pending, never issued or
\* already resolved, returns None as its value, raises nothing, and leaves the
\* pending map as it was.
C27_NotFound ==
  [][\A r \in Resolvers :
       (/\ resolver[r].st = "inflight" /\ resolver'[r] # resolver[r]
        /\ resolver[r].confirmation_id \notin DOMAIN pending_disambiguations)
       => /\ resolver'[r].st = "returned"
          /\ resolver'[r].result = Null
          /\ pending_disambiguations' = pending_disambiguations
          /\ resolved_ids' = resolved_ids]_vars

\* a resolve on an id that was never issued has returned None while one record
\* was pending and another had been resolved
C27_Witness ==
  /\ DOMAIN pending_disambiguations # {}
  /\ resolved_ids # {}
  /\ \E r \in Resolvers :
       /\ resolver[r].st = "returned" /\ resolver[r].confirmation_id = "unknown"
       /\ resolver[r].result = Null

\* C28: a resolve_disambiguation on a pending id returns the confidence
\* 1/len(options) when the selected option is one of the record's options and 0.5
\* otherwise, for every option list, the empty one included, and removes the
\* record in both cases.
C28_ResolveConfidence ==
  [][\A r \in Resolvers :
       (/\ resolver[r].st = "inflight" /\ resolver'[r].st = "returned"
        /\ resolver[r].confirmation_id \in DOMAIN pending_disambiguations)
       => LET options == pending_disambiguations[resolver[r].confirmation_id].options
              listed == \E k \in DOMAIN options : options[k] = resolver[r].selected_option
              confidence == resolver'[r].result.confidence
          IN /\ resolver'[r].result # Null
             /\ confidence.den > 0
             /\ listed => confidence.num * Len(options) = confidence.den
             /\ ~ listed => confidence.num * 2 = confidence.den
             /\ resolver[r].confirmation_id \notin DOMAIN pending_disambiguations']_vars

\* a listed option was resolved at 1/5 and an option of an empty list at 1/2, and
\* both records are gone
C28_Witness ==
  /\ issued_ids = resolved_ids /\ Cardinality(resolved_ids) = 2
  /\ pending_disambiguations = <<>>
  /\ \E r1, r2 \in Resolvers :
       /\ resolver[r1].st = "returned" /\ resolver[r2].st = "returned"
       /\ resolver[r1].result # Null /\ resolver[r2].result # Null
       /\ resolver[r1].selected_option = price_options[1]
       /\ resolver[r1].result.confidence = [num |-> 1, den |-> Len(price_options)]
       /\ resolver[r2].selected_option = T_hello
       /\ resolver[r2].result.confidence = [num |-> 1, den |-> 2]

\* C29 as stated: each process_voice run ends in one of NoSpeech, Disambiguate,
\* Done, Fallback; ASR is requested at most once and only after the VAD detected
\* speech, the translation back only after the response was generated, TTS at
\* most once and only as the last call of a Done run; fallback_used and
\* disambiguation_required are never both true, and the response carries audio
\* only in the Done outcome.
C29_StageOrderTtsDone ==
  \A p \in Procs :
    LET calls == proc[p].calls
        stage(call) == CASE call.svc = "asr" -> 1
                         [] call.svc = "nmt" /\ call.target_language = "en" -> 2
                         [] call.svc = "nmt" -> 3
                         [] OTHER -> 4
        speech == /\ b64decode(proc[p].request.audio_data).raised = Null
                  /\ detect(b64decode(proc[p].request.audio_data).bytes).raised = Null
                  /\ detect(b64decode(proc[p].request.audio_data).bytes).is_speech
        ri == Understanding[proc[p].user_text_english].ri
        entities == Understanding[proc[p].user_text_english].entities
    IN /\ proc[p].pc # "raised"
       /\ Returned(p) => proc[p].outcome \in {"NoSpeech", "Disambiguate", "Done", "Fallback"}
       /\ \A i \in 1..Len(calls) :
            /\ i > 1 => stage(calls[i - 1]) < stage(calls[i])
            /\ stage(calls[i]) = 1 => speech
            /\ stage(calls[i]) = 3
               => calls[i].text = _generate_response(ri.intent, entities, proc[p].user_text_english)
            /\ stage(calls[i]) = 4
               => /\ i = Len(calls)
                  /\ Returned(p) => proc[p].outcome \in {"Done"}
       /\ (Returned(p) /\ proc[p].outcome = "Done")
          => (calls # <<>> /\ stage(calls[Len(calls)]) = 4)
       /\ Returned(p)
          => /\ ~ (proc[p].response.fallback_used /\ proc[p].response.disambiguation_required)
             /\ proc[p].response.system_response_audio # None => proc[p].outcome = "Done"

\* C29: each process_voice run ends in one of NoSpeech, Disambiguate, Done,
\* Fallback; ASR is requested at most once and only after the VAD detected
\* speech, the translation back only after the response was generated, TTS at
\* most once and only as the last call of its run, which then ends in Done or,
\* the TTS request failing with an exception, in Fallback, and every Done run
\* ends with the TTS call; fallback_used and disambiguation_required are never
\* both true, and the response carries audio only in the Done outcome.
C29_StageOrder ==
  \A p \in Procs :
    LET calls == proc[p].calls
        stage(call) == CASE call.svc = "asr" -> 1
                         [] call.svc = "nmt" /\ call.target_language = "en" -> 2
                         [] call.svc = "nmt" -> 3
                         [] OTHER -> 4
        speech == /\ b64decode(proc[p].request.audio_data).raised = Null
                  /\ detect(b64decode(proc[p].request.audio_data).bytes).raised = Null
                  /\ detect(b64decode(proc[p].request.audio_data).bytes).is_speech
        ri == Understanding[proc[p].user_text_english].ri
        entities == Understanding[proc[p].user_text_english].entities
    IN /\ proc[p].pc # "raised"
       /\ Returned(p) => proc[p].outcome \in {"NoSpeech", "Disambiguate", "Done", "Fallback"}
       /\ \A i \in 1..Len(calls) :
            /\ i > 1 => stage(calls[i - 1]) < stage(calls[i])
            /\ stage(calls[i]) = 1 => speech
            /\ stage(calls[i]) = 3
               => calls[i].text = _generate_response(ri.intent, entities, proc[p].user_text_english)
            /\ stage(calls[i]) = 4
               => /\ i = Len(calls)
                  /\ Returned(p) => proc[p].outcome \in {"Done", "Fallback"}
       /\ (Returned(p) /\ proc[p].outcome = "Done")
          => (calls # <<>> /\ stage(calls[Len(calls)]) = 4)
       /\ Returned(p)
          => /\ ~ (proc[p].response.fallback_used /\ proc[p].response.disambiguation_required)
             /\ proc[p].response.system_response_audio # None => proc[p].outcome = "Done"

\* a Hindi run went through ASR, both translations and TTS and returned Done with audio
C29_Witness ==
  \E p \in Procs :
    /\ Returned(p) /\ proc[p].outcome = "Done"
    /\ Len(proc[p].calls) = 4
    /\ proc[p].calls[1].svc = "asr" /\ proc[p].calls[4].svc = "tts"
    /\ proc[p].calls[3].svc = "nmt" /\ proc[p].calls[3].source_language = "en"
    /\ <<"mp3 audio">> = proc[p].response.system_response_audio

\* C30 as stated: no process_voice run writes to the response cache, so after
\* process_voice calls alone the cache is empty; the fallback looks the cache up
\* under the empty key, so the cached response is returned only when a caller has
\* stored a non-empty response under a query that normalizes to the empty string,
\* and then it is returned for every fallback, whatever the request.
C30_EmptyKeyAnyRequest ==
  [][/\ cache_ops' = 0 => cache' = <<>>
     /\ \A p \in Procs :
          proc'[p] # proc[p]
          => /\ cache' = cache
             /\ (proc'[p].pc = "returned" /\ proc'[p].outcome = "Fallback")
                => LET seeded == \E q \in DOMAIN cache :
                                   Strip(Lower(q)) = <<>> /\ cache[q] # <<>>
                       system_response == proc'[p].response.system_response
                       fixed == {<<"Voice processing failed. Please try again or use text input.">>,
                                 <<"Voice recognition failed. Please repeat your query or type it instead.">>}
                   IN /\ system_response \notin fixed
                         => (seeded /\ system_response = cache[<<>>])
                      /\ seeded
                         => system_response = cache[<<>>]]_vars

\* C30: no process_voice run writes to the response cache, so after process_voice
\* calls alone the cache is empty; the fallback looks the cache up under the empty
\* key, so the cached response is returned only when a caller has stored a
\* non-empty response under a query that normalizes to the empty string, and then
\* it is returned for every fallback of a request with enable_fallback = true.
C30_EmptyKeyLookup ==
  [][/\ cache_ops' = 0 => cache' = <<>>
     /\ \A p \in Procs :
          proc'[p] # proc[p]
          => /\ cache' = cache
             /\ (proc'[p].pc = "returned" /\ proc'[p].outcome = "Fallback")
                => LET seeded == \E q \in DOMAIN cache :
                                   Strip(Lower(q)) = <<>> /\ cache[q] # <<>>
                       system_response == proc'[p].response.system_response
                       fixed == {<<"Voice processing failed. Please try again or use text input.">>,
                                 <<"Voice recognition failed. Please repeat your query or type it instead.">>}
                   IN /\ system_response \notin fixed
                         => (seeded /\ system_response = cache[<<>>])
                      /\ (seeded /\ proc'[p].request.enable_fallback)
                         => system_response = cache[<<>>]]_vars

\* a run whose transcript was "wheat price" fell back and answered with the
\* response a caller had stored under the empty query
C30_Witness ==
  \E p \in Procs :
    /\ Returned(p) /\ proc[p].outcome = "Fallback"
    /\ proc[p].request.enable_fallback
    /\ proc[p].user_text = T_wheat_price
    /\ DOMAIN cache = {<<>>}
    /\ proc[p].response.system_response = <<"cached answer">>
    /\ proc[p].response.system_response = cache[<<>>]

\* C22: at every translation call site, translate and translate_batch, a call
\* with source language = target language returns each input text unchanged with
\* confidence 1.0 and zero latency and issues no gateway request; hence a
\* process_voice run with English source issues no NMT request at all.
C22_IdentityTranslation ==
  /\ (nmt_call.st # "idle" /\ nmt_call.source_language = nmt_call.target_language)
     => /\ nmt_call.st = "returned"
        /\ nmt_call.requests = 0
        /\ nmt_call.result.raised = Null
        /\ Len(nmt_call.result.responses) = Len(nmt_call.texts)
        /\ \A k \in 1..Len(nmt_call.texts) :
             /\ nmt_call.result.responses[k].original_text = nmt_call.texts[k]
             /\ nmt_call.result.responses[k].translated_text = nmt_call.texts[k]
             /\ nmt_call.result.responses[k].confidence = 100
             /\ nmt_call.result.responses[k].processing_time_ms = 0
  /\ \A p \in Procs :
       (proc[p].pc # "idle" /\ proc[p].request.source_language = "en")
       => /\ \A i \in 1..Len(proc[p].calls) : proc[p].calls[i].svc # "nmt"
          /\ (Returned(p) /\ proc[p].outcome \in {"Done", "Disambiguate"})
             => proc[p].response.user_text_english = proc[p].response.user_text

\* a translate_batch of two texts from Hindi to Hindi has returned, and an English
\* process_voice run has ended in Done after an ASR and a TTS request
C22_Witness ==
  /\ nmt_call.st = "returned"
  /\ nmt_call.site = "translate_batch"
  /\ nmt_call.source_language = "hi" /\ nmt_call.target_language = "hi"
  /\ nmt_call.texts = <<T_hello, T_weather>>
  /\ \E p \in Procs :
       /\ Returned(p) /\ proc[p].outcome = "Done"
       /\ proc[p].request.source_language = "en"
       /\ Len(proc[p].calls) = 2
       /\ proc[p].user_text_english = T_weather

====
